---- MODULE Spec2Model ----
(***************************************************************************)
(* Verification model of the Warden trust agent: the EigenTrust solver     *)
(* (src/src/core/eigentrust.ts), the Neo4j edge store                      *)
(* (src/src/services/graph.service.ts) and the score aggregator            *)
(* (src/src/utils/helpers.ts).                                             *)
(*                                                                         *)
(* Numbers the solver handles are modelled as exact rationals              *)
(* [num, den] with den > 0; the code uses IEEE doubles.                    *)
(***************************************************************************)
EXTENDS Integers, Sequences, FiniteSets, TLC

VARIABLES
    \* ---- EigenTrustEngine.compute: arguments, configuration, locals ----
    edges,        \* argument: the edge list
    preTrusted,   \* argument: the pre-trusted set
    config,       \* this.config
    pc,           \* position inside compute
    nodes,        \* Array.from(nodeSet), in insertion order
    rawC,         \* matrix after the populate loop, before normalization
    C,            \* the row-normalized matrix
    p,            \* pre-trusted distribution vector
    t,            \* current trust vector
    tPrev,        \* the vector t held before the last "t = tNew"
    iterations,
    converged,
    lastDiff,     \* diff of the most recent loop body
    scores,       \* the returned Map
    \* ---- GraphService: the Neo4j database behind it ----
    rels,         \* the TRUSTS relationships, in creation order
    nodeScore,    \* Address nodes: address -> eigenTrustScore (or NoScore)
    upsertLog,    \* history: every edge passed to an upsert, in call order
    lastQuery,    \* the read operation in progress: its arguments and its result
    \* ---- TrustScoreTool.recomputeGlobalScores: the concurrent runs ----
    runPc,        \* run -> "idle" | "computed" | "done"
    runSnapshot,  \* run -> the edge list getAllEdges returned to it
    runResult,    \* run -> the scores compute returned to it
    storeOrder,   \* history: the runs in the order their score writes executed
    \* ---- TrustScoreTool.score: one call ----
    scoreQuery,   \* the TrustQuery passed to score()
    scoreWorld,   \* what each external request of this call returns or throws
    scoreParts,   \* the four members of the Promise.all: pending or settled
    response,     \* the TrustResponse score() resolved with
    \* ---- GraphService: driver and sessions ----
    driver,       \* this.driver: "null" or "set"
    connected,    \* history: a connect() resolved and no disconnect() since
    sessions,     \* number of sessions opened and not yet closed
    graphOps,     \* caller -> the operation it has in progress
    \* ---- the agent's message handler: one message ----
    message,      \* the text the parts of the incoming message join to
    handlerPc,    \* position inside the handler
    parsed,       \* what llm.parseQuery resolved with
    events,       \* the states of the events yielded so far
    llmCalls,     \* number of LLM requests made
    toolCalls,    \* number of tool methods called
    \* ---- IntuitionService.fetchAllEdges: one call ----
    triples,      \* the triples the source holds, in query order
    syncArgs,     \* the batchSize and maxBatches of the call
    syncPc,       \* position inside fetchAllEdges
    batch,        \* the loop variable i
    requests,     \* history: the <<limit, offset>> of every request made
    collected     \* fetchAllEdges' allEdges: the triples whose edges were pushed

solverVars == <<edges, preTrusted, config, pc, nodes, rawC, C, p, t, tPrev,
                iterations, converged, lastDiff, scores>>

storeVars == <<rels, nodeScore, upsertLog>>

queryVars == <<lastQuery>>

runVars == <<runPc, runSnapshot, runResult, storeOrder>>

scoreVars == <<scoreQuery, scoreWorld, scoreParts, response>>

connVars == <<driver, connected, sessions, graphOps>>

agentVars == <<message, handlerPc, parsed, events, llmCalls, toolCalls>>

syncVars == <<triples, syncArgs, syncPc, batch, requests, collected>>

restVars == <<connVars, agentVars, syncVars>>

vars == <<solverVars, storeVars, queryVars, runVars, scoreVars, restVars>>

-----------------------------------------------------------------------------
(* Bounds of the model *)

MaxEdges == 2
MaxIterations == 3
MaxUpserts == 2
MaxStoreEdges == 3
MaxHops == 2
MaxDepth == 2

-----------------------------------------------------------------------------
(* Exact rational arithmetic *)

Rat(n, d) == [num |-> n, den |-> d]

Max(a, b) == IF a >= b THEN a ELSE b

Min(a, b) == IF a <= b THEN a ELSE b

Abs(x) == IF x < 0 THEN -x ELSE x

\* Euclid's algorithm (a recursive function: its arguments are values)
gcd[a \in Nat, b \in Nat] == IF b = 0 THEN a ELSE gcd[b, a % b]

GCD(a, b) == gcd[a, b]

LCM(a, b) == (a \div GCD(a, b)) * b

RECURSIVE SeqSum(_, _)
SeqSum(s, k) == IF k = 0 THEN 0 ELSE s[k] + SeqSum(s, k - 1)

RECURSIVE SeqGCD(_, _)
SeqGCD(s, k) == IF k = 0 THEN 0 ELSE GCD(Abs(s[k]), SeqGCD(s, k - 1))

RECURSIVE SeqLCM(_, _)
SeqLCM(s, k) == IF k = 0 THEN 1 ELSE LCM(s[k], SeqLCM(s, k - 1))

Reduce(r) ==
    LET rv == r
        g == GCD(Abs(rv.num), rv.den)
    IN  Rat(rv.num \div g, rv.den \div g)

\* a/b < c/d for non-negative rationals, by continued-fraction comparison
\* (no cross products, so no overflow)
ratLess[a \in Nat, b \in Nat, c \in Nat, d \in Nat] ==
    IF a \div b # c \div d THEN a \div b < c \div d
    ELSE IF c % d = 0 THEN FALSE
    ELSE IF a % b = 0 THEN TRUE
    ELSE ratLess[d, c % d, b, a % b]

RatLess(x, y) == ratLess[x.num, x.den, y.num, y.den]

\* A vector of rationals over one denominator: [num : Seq(Int), den : Nat]
Vec(ns, d) == [num |-> ns, den |-> d]

ReduceVec(v) ==
    LET vv == v
        g == GCD(SeqGCD(vv.num, Len(vv.num)), vv.den)
    IN  Vec([i \in 1..Len(vv.num) |-> vv.num[i] \div g], vv.den \div g)

VecSum(v) == Reduce(Rat(SeqSum(v.num, Len(v.num)), v.den))

-----------------------------------------------------------------------------
(* Inputs of compute *)

NodeIds == {"a", "b", "c"}

Weights == {-1, 1, 2}

\* TrustEdge as compute reads it (source and timestamp are not read there)
EdgeChoices == [from : NodeIds, to : NodeIds, weight : Weights]

EdgeLists == UNION {[1..k -> EdgeChoices] : k \in 0..MaxEdges}

\* a pre-trusted address may or may not be an endpoint of an edge of the list
PreTrustedChoices == {{}, {"a"}, {"a", "b"}}

\* The constructor merges a Partial<EigenTrustConfig> over the defaults;
\* these are the configurations the model constructs the engine with.
ConfigChoices ==
    { [maxIterations |-> MaxIterations,
       convergenceThreshold |-> Rat(1, d),
       decayFactor |-> Rat(1, 2)] : d \in {8, 10000} }

-----------------------------------------------------------------------------
(* EigenTrustEngine.compute, step by step *)

AddNode(acc, x) ==
    IF \E i \in 1..Len(acc) : acc[i] = x THEN acc ELSE Append(acc, x)

\* nodeSet after the first k edges, in Set insertion order
RECURSIVE NodesOf(_, _)
NodesOf(es, k) ==
    IF k = 0 THEN <<>>
    ELSE AddNode(AddNode(NodesOf(es, k - 1), es[k].from), es[k].to)

IndexOf(ns, x) == CHOOSE i \in 1..Len(ns) : ns[i] = x

ClampNone(w) == w

\* Math.max(0, edge.weight)
Clamp(w) == Max(0, w)

PropagatesKeepDiagonal(i, j) == TRUE

Propagates(i, j) == i # j

ZeroMatrix(n) == [i \in 1..n |-> [j \in 1..n |-> 0]]

\* a populate loop that adds to the entry where line 168 assigns it
RECURSIVE PopulateSumming(_, _, _)
PopulateSumming(es, ns, k) ==
    IF k = 0 THEN ZeroMatrix(Len(ns))
    ELSE LET m == PopulateSumming(es, ns, k - 1)
             i == IndexOf(ns, es[k].from)
             j == IndexOf(ns, es[k].to)
         IN  IF Propagates(i, j)
             THEN [m EXCEPT ![i][j] = m[i][j] + Clamp(es[k].weight)]
             ELSE m

\* the populate loop over the first k edges
RECURSIVE Populate(_, _, _)
Populate(es, ns, k) ==
    IF k = 0 THEN ZeroMatrix(Len(ns))
    ELSE LET m == Populate(es, ns, k - 1)
             i == IndexOf(ns, es[k].from)
             j == IndexOf(ns, es[k].to)
         IN  IF Propagates(i, j)
             THEN [m EXCEPT ![i][j] = Clamp(es[k].weight)]
             ELSE m

RowSum(row) == SeqSum(row, Len(row))

NormalizeRowNoDangling(row) ==
    LET n == Len(row)
        rowSum == RowSum(row)
    IN  IF rowSum > 0
        THEN [j \in 1..n |-> Rat(row[j], rowSum)]
        ELSE [j \in 1..n |-> Rat(0, 1)]

NormalizeRow(row) ==
    LET n == Len(row)
        rowSum == RowSum(row)
    IN  IF rowSum > 0
        THEN [j \in 1..n |-> Rat(row[j], rowSum)]
        ELSE [j \in 1..n |-> Rat(1, n)]

BuildNormalizedTrustMatrix(raw) == [i \in 1..Len(raw) |-> NormalizeRow(raw[i])]

\* a pre-trust vector left unnormalized: 1 for every counted node
PreTrustVectorOnes(ns, pre) ==
    LET n == Len(ns)
    IN  Vec([i \in 1..n |-> IF Cardinality(pre) = 0 \/ ns[i] \in pre THEN 1 ELSE 0], 1)

\* lines 74-83: uniform over the pre-trusted nodes, or over all nodes
PreTrustVector(ns, pre) ==
    LET n == Len(ns)
    IN  IF Cardinality(pre) > 0
        THEN Vec([i \in 1..n |-> IF ns[i] \in pre THEN 1 ELSE 0], Cardinality(pre))
        ELSE Vec([i \in 1..n |-> 1], n)

\* One loop body: tNew[j] = (1 - a) * p[j] + a * sum_i C[i][j] * t[i],
\* diff = sum_i |tNew[i] - t[i]|
LoopBody(Cm, pv, tv, a) ==
    LET n == Len(tv.num)
        L == SeqLCM([i \in 1..n |-> Cm[i][1].den], n)
        den == a.den * pv.den * L * tv.den
        sum(j) == SeqSum([i \in 1..n |->
                     Cm[i][j].num * (L \div Cm[i][j].den) * tv.num[i]], n)
        tNew == [j \in 1..n |->
                     (a.den - a.num) * pv.num[j] * L * tv.den
                     + a.num * sum(j) * pv.den]
        told == [j \in 1..n |-> tv.num[j] * a.den * pv.den * L]
        diff == SeqSum([i \in 1..n |-> Abs(tNew[i] - told[i])], n)
    IN  [t |-> ReduceVec(Vec(tNew, den)), diff |-> Reduce(Rat(diff, den))]

LoopGuardOffByOne(it, cfg) == it <= cfg.maxIterations

LoopGuard(it, cfg) == it < cfg.maxIterations

BelowThreshold(diff, cfg) == RatLess(diff, cfg.convergenceThreshold)

PackageScores(ns, tv) ==
    [x \in {ns[i] : i \in 1..Len(ns)} |-> Reduce(Rat(tv.num[IndexOf(ns, x)], tv.den))]

NoVec == Vec(<<>>, 1)
NoDiff == Rat(0, 1)

Callers == {"c1", "c2"}

NoOp == [op |-> "none", pc |-> "idle"]

ConnIdle ==
    /\ driver = "null"
    /\ connected = FALSE
    /\ sessions = 0
    /\ graphOps = [c \in Callers |-> NoOp]

AgentIdle ==
    /\ message = "none"
    /\ handlerPc = "idle"
    /\ parsed = [intent |-> "none"]
    /\ events = <<>>
    /\ llmCalls = 0
    /\ toolCalls = 0

SyncIdle ==
    /\ triples = <<>>
    /\ syncArgs = [batchSize |-> 0, maxBatches |-> 0]
    /\ syncPc = "idle"
    /\ batch = 0
    /\ requests = <<>>
    /\ collected = <<>>

NoQuery == [op |-> "none"]

QueryIdle == lastQuery = NoQuery

Pending == [done |-> FALSE, factors |-> <<>>, entityType |-> "unknown"]

NoResponse == [outcome |-> "pending"]

ScoreIdle ==
    /\ scoreQuery = [target |-> "", depth |-> 0]
    /\ scoreWorld = [graph |-> "ok"]
    /\ scoreParts = [b \in {} |-> Pending]
    /\ response = NoResponse

Runs == {"r1", "r2"}

RunsIdle ==
    /\ runPc = [r \in Runs |-> "idle"]
    /\ runSnapshot = [r \in Runs |-> <<>>]
    /\ runResult = [r \in Runs |-> <<>>]
    /\ storeOrder = <<>>

StoreIdle ==
    /\ ConnIdle
    /\ AgentIdle
    /\ SyncIdle
    /\ rels = <<>>
    /\ nodeScore = <<>>
    /\ upsertLog = <<>>
    /\ QueryIdle
    /\ RunsIdle
    /\ ScoreIdle

SolverInit ==
    /\ StoreIdle
    /\ edges \in EdgeLists
    /\ preTrusted \in PreTrustedChoices
    /\ config \in ConfigChoices
    /\ pc = "start"
    /\ nodes = <<>>
    /\ rawC = <<>>
    /\ C = <<>>
    /\ p = NoVec
    /\ t = NoVec
    /\ tPrev = NoVec
    /\ iterations = 0
    /\ converged = FALSE
    /\ lastDiff = NoDiff
    /\ scores = <<>>

\* the early return reporting converged: false
ComputeEmptyNotConverged ==
    /\ pc = "start"
    /\ Len(NodesOf(edges, Len(edges))) = 0
    /\ nodes' = <<>>
    /\ converged' = FALSE
    /\ iterations' = 0
    /\ scores' = <<>>
    /\ pc' = "done"
    /\ UNCHANGED <<edges, preTrusted, config, rawC, C, p, t, tPrev, lastDiff>>

\* n === 0: return { scores: new Map(), iterations: 0, converged: true }
ComputeEmpty ==
    /\ pc = "start"
    /\ Len(NodesOf(edges, Len(edges))) = 0
    /\ nodes' = <<>>
    /\ converged' = TRUE
    /\ iterations' = 0
    /\ scores' = <<>>
    /\ pc' = "done"
    /\ UNCHANGED <<edges, preTrusted, config, rawC, C, p, t, tPrev, lastDiff>>

\* lines 48-89: nodes, nodeIndex, C, p, t = p
ComputeSetup ==
    /\ pc = "start"
    /\ LET ns == NodesOf(edges, Len(edges))
           raw == Populate(edges, ns, Len(edges))
       IN  /\ Len(ns) > 0
           /\ nodes' = ns
           /\ rawC' = raw
           /\ C' = BuildNormalizedTrustMatrix(raw)
           /\ p' = PreTrustVector(ns, preTrusted)
           /\ t' = PreTrustVector(ns, preTrusted)
    /\ iterations' = 0
    /\ converged' = FALSE
    /\ pc' = "loop"
    /\ UNCHANGED <<edges, preTrusted, config, tPrev, lastDiff, scores>>

\* one pass through the while body, lines 92-118
ComputeIterate ==
    /\ pc = "loop"
    /\ LoopGuard(iterations, config)
    /\ LET r == LoopBody(C, p, t, config.decayFactor)
       IN  /\ t' = r.t
           /\ tPrev' = t
           /\ lastDiff' = r.diff
           /\ iterations' = iterations + 1
           /\ IF BelowThreshold(r.diff, config)
              THEN converged' = TRUE /\ pc' = "package"
              ELSE converged' = converged /\ pc' = "loop"
    /\ UNCHANGED <<edges, preTrusted, config, nodes, rawC, C, p, scores>>

\* the while condition fails: fall through to packaging
ComputeLoopExit ==
    /\ pc = "loop"
    /\ ~LoopGuard(iterations, config)
    /\ pc' = "package"
    /\ UNCHANGED <<edges, preTrusted, config, nodes, rawC, C, p, t, tPrev,
                   iterations, converged, lastDiff, scores>>

\* lines 120-126
ComputeReturn ==
    /\ pc = "package"
    /\ scores' = PackageScores(nodes, t)
    /\ pc' = "done"
    /\ UNCHANGED <<edges, preTrusted, config, nodes, rawC, C, p, t, tPrev,
                   iterations, converged, lastDiff>>

SolverNext ==
    \/ ComputeEmpty /\ UNCHANGED <<storeVars, queryVars, runVars, scoreVars, restVars>>
    \/ ComputeSetup /\ UNCHANGED <<storeVars, queryVars, runVars, scoreVars, restVars>>
    \/ ComputeIterate /\ UNCHANGED <<storeVars, queryVars, runVars, scoreVars, restVars>>
    \/ ComputeLoopExit /\ UNCHANGED <<storeVars, queryVars, runVars, scoreVars, restVars>>
    \/ ComputeReturn /\ UNCHANGED <<storeVars, queryVars, runVars, scoreVars, restVars>>

SolverSpec == SolverInit /\ [][SolverNext]_vars

\* compute as one function. Intermediate results are bound as values by a
\* quantifier over a one-element set, so that each is evaluated once.
TheOnly(S) == CHOOSE x \in S : TRUE

LoopPass(Cm, pv, cfg, prev) ==
    IF prev.converged \/ ~LoopGuard(prev.iterations, cfg)
    THEN prev
    ELSE TheOnly({ [t |-> r.t,
                    iterations |-> prev.iterations + 1,
                    converged |-> BelowThreshold(r.diff, cfg)] :
                   r \in {LoopBody(Cm, pv, prev.t, cfg.decayFactor)} })

\* the state of the loop after at most k passes
RECURSIVE RunLoop(_, _, _, _)
RunLoop(Cm, pv, cfg, k) ==
    IF k = 0
    THEN [t |-> pv, iterations |-> 0, converged |-> FALSE]
    ELSE TheOnly({ LoopPass(Cm, pv, cfg, prev) :
                   prev \in {RunLoop(Cm, pv, cfg, k - 1)} })

ComputeOn(ns, Cm, pv, cfg) ==
    TheOnly({ [scores |-> PackageScores(ns, r.t),
               iterations |-> r.iterations,
               converged |-> r.converged] :
              r \in {RunLoop(Cm, pv, cfg, cfg.maxIterations)} })

Compute(es, pre, cfg) ==
    IF Len(es) = 0
    THEN [scores |-> <<>>, iterations |-> 0, converged |-> TRUE]
    ELSE TheOnly(UNION {
            { ComputeOn(ns, Cm, PreTrustVector(ns, pre), cfg) :
              Cm \in {BuildNormalizedTrustMatrix(Populate(es, ns, Len(es)))} } :
            ns \in {NodesOf(es, Len(es))} })

-----------------------------------------------------------------------------
(* Properties of the solver *)

RatAdd(x, y) ==
    LET L == LCM(x.den, y.den)
    IN  Reduce(Rat(x.num * (L \div x.den) + y.num * (L \div y.den), L))

RECURSIVE ScoreSum(_, _, _)
ScoreSum(sc, ns, k) ==
    IF k = 0 THEN Rat(0, 1) ELSE RatAdd(sc[ns[k]], ScoreSum(sc, ns, k - 1))

L1Distance(u, v) ==
    LET n == Len(u.num)
        L == LCM(u.den, v.den)
    IN  Reduce(Rat(SeqSum([i \in 1..n |->
                     Abs(u.num[i] * (L \div u.den) - v.num[i] * (L \div v.den))], n), L))

NodeSet(es) == {es[k].from : k \in 1..Len(es)} \cup {es[k].to : k \in 1..Len(es)}

WithoutSelfLoops(es) == SelectSeq(es, LAMBDA e : e.from # e.to)

\* C1 (as claimed): whenever compute returns converged = true on a non-empty
\* edge list, whatever the pre-trusted set, the returned scores sum to 1.
C1_MassConservation ==
    (pc = "done" /\ Len(edges) > 0 /\ converged)
        => ScoreSum(scores, nodes, Len(nodes)) = Rat(1, 1)

C2_ReturnedValue ==
    /\ iterations <= config.maxIterations
    /\ (pc = "done" /\ Len(nodes) > 0) =>
          /\ converged <=> RatLess(L1Distance(t, tPrev), config.convergenceThreshold)
          /\ ~converged => iterations = config.maxIterations

\* an upper bound on the steps compute still has to take
StepsLeft ==
    CASE pc = "done" -> 0
      [] pc = "package" -> 1
      [] pc = "loop" -> 2 + (config.maxIterations - iterations)
      [] OTHER -> 3 + config.maxIterations

\* C2: compute always terminates (every step strictly lowers a bound on the
\* steps left, which never goes below 0), with iterations <= maxIterations;
\* on a non-empty node set converged is true exactly when the L1 distance
\* between the last iterate and the one before it is below
\* convergenceThreshold, and converged = false implies
\* iterations = maxIterations. compute has no throwing step.
C2_StoppingRule ==
    /\ [] C2_ReturnedValue
    /\ [][StepsLeft' < StepsLeft /\ StepsLeft' >= 0]_vars

C2_Witness_Converged ==
    /\ pc = "done"
    /\ converged
    /\ iterations > 1
    /\ iterations < config.maxIterations

C9_RowOk(i) ==
    LET n == Len(nodes)
        rowSum == SeqSum(rawC[i], n)
    IN  /\ \A j \in 1..n : C[i][j].den = C[i][1].den /\ C[i][j].den > 0
        /\ SeqSum([j \in 1..n |-> C[i][j].num], n) = C[i][1].den
        /\ rowSum = 0 => \A j \in 1..n : C[i][j].num * n = C[i][j].den
        /\ rowSum # 0 => \A j \in 1..n : C[i][j].num * rowSum = rawC[i][j] * C[i][j].den

\* C9: once the matrix is built for a non-empty node set, every row of the
\* normalized matrix sums to 1; a row whose clamped off-diagonal weights sum
\* to 0 is the uniform row 1/|N|; every other row is its clamped weights
\* divided by their sum.
C9_RowStochastic ==
    (pc \in {"loop", "package", "done"} /\ Len(nodes) > 0)
        => \A i \in 1..Len(nodes) : C9_RowOk(i)

C9_Witness_DanglingAndWeighted ==
    /\ pc = "loop"
    /\ Len(nodes) = 3
    /\ \E i \in 1..3 : SeqSum(rawC[i], 3) = 0
    /\ \E i \in 1..3 : \E j, k \in 1..3 : rawC[i][j] > 0 /\ rawC[i][k] > rawC[i][j]

\* C10: the un-normalized matrix has a zero diagonal, and compute returns the
\* scores it returns for the same list with the self-loops removed, whenever
\* removing them leaves the node set unchanged.
C10_SelfLoopsExcluded ==
    /\ (pc \in {"loop", "package", "done"} /\ Len(nodes) > 0)
          => \A i \in 1..Len(nodes) : rawC[i][i] = 0
    /\ (pc = "done" /\ NodeSet(WithoutSelfLoops(edges)) = NodeSet(edges))
          => scores = Compute(WithoutSelfLoops(edges), preTrusted, config).scores

C10_Witness_SelfLoop ==
    /\ pc = "done"
    /\ \E k \in 1..Len(edges) : edges[k].from = edges[k].to /\ edges[k].weight > 0
    /\ NodeSet(WithoutSelfLoops(edges)) = NodeSet(edges)
    /\ iterations > 1

ZeroNegative(es) ==
    [k \in 1..Len(es) |->
        IF es[k].weight < 0 THEN [es[k] EXCEPT !.weight = 0] ELSE es[k]]

LastForPair(k) ==
    \A l \in (k + 1)..Len(edges) :
        ~(edges[l].from = edges[k].from /\ edges[l].to = edges[k].to)

\* C11: a negative weight leaves 0 in the un-normalized matrix, exactly as a
\* weight of 0 does, and every edge destination (also one whose only incoming
\* edge is negative) is a key of the returned scores with a defined value.
C11_NegativeWeightsClamped ==
    /\ (pc \in {"loop", "package", "done"} /\ Len(nodes) > 0)
          => \A k \in 1..Len(edges) :
                (edges[k].weight < 0 /\ LastForPair(k))
                   => rawC[IndexOf(nodes, edges[k].from)]
                          [IndexOf(nodes, edges[k].to)] = 0
    /\ pc = "done"
          => /\ Len(nodes) > 0
                   => rawC = Populate(ZeroNegative(edges), nodes, Len(edges))
             /\ \A k \in 1..Len(edges) :
                   /\ edges[k].to \in DOMAIN scores
                   /\ scores[edges[k].to].den > 0
                   /\ scores[edges[k].to].num >= 0

C11_Witness_NegativeOnlyIncoming ==
    /\ pc = "done"
    /\ iterations >= 1
    /\ \E k \in 1..Len(edges) :
          /\ edges[k].weight < 0
          /\ edges[k].from # edges[k].to
          /\ \A l \in 1..Len(edges) : edges[l].to = edges[k].to => l = k
          /\ edges[k].to \in DOMAIN scores

\* C24: compute on an empty edge list returns an empty score mapping,
\* iterations = 0 and converged = true, and never enters the loop: no matrix,
\* no vector and no diff is ever computed.
C24_EmptyInput ==
    Len(edges) = 0 =>
        /\ pc \in {"start", "done"}
        /\ rawC = <<>> /\ C = <<>>
        /\ p = NoVec /\ t = NoVec /\ tPrev = NoVec /\ lastDiff = NoDiff
        /\ iterations = 0
        /\ pc = "done" => (scores = <<>> /\ DOMAIN scores = {} /\ converged)

C24_Witness_EmptyReturned ==
    /\ pc = "done"
    /\ edges = <<>>
    /\ preTrusted # {}
    /\ converged

\* the last edge of the list from x to y
LastEdge(x, y) ==
    edges[CHOOSE k \in 1..Len(edges) :
             /\ edges[k].from = x /\ edges[k].to = y
             /\ \A l \in (k + 1)..Len(edges) :
                    ~(edges[l].from = x /\ edges[l].to = y)]

\* C28: when the edge list holds several edges with the same from and to,
\* the un-normalized C[from][to] is the weight of the last of them in list
\* order, or 0 if that weight is negative; the earlier ones do not count.
C28_LastParallelEdgeWins ==
    (pc \in {"loop", "package", "done"} /\ Len(nodes) > 0) =>
        \A i, j \in 1..Len(nodes) :
            (i # j /\ \E k \in 1..Len(edges) :
                          edges[k].from = nodes[i] /\ edges[k].to = nodes[j])
               => rawC[i][j] =
                     (IF LastEdge(nodes[i], nodes[j]).weight < 0 THEN 0
                      ELSE LastEdge(nodes[i], nodes[j]).weight)

C28_Witness_NegativeErasesPositive ==
    /\ pc = "done"
    /\ Len(edges) = 2
    /\ edges[1].from = edges[2].from /\ edges[1].to = edges[2].to
    /\ edges[1].from # edges[1].to
    /\ edges[1].weight > 0 /\ edges[2].weight < 0
    /\ rawC[IndexOf(nodes, edges[1].from)][IndexOf(nodes, edges[1].to)] = 0

C28_Witness_LaterPositiveReplaces ==
    /\ pc = "done"
    /\ Len(edges) = 2
    /\ edges[1].from = edges[2].from /\ edges[1].to = edges[2].to
    /\ edges[1].weight = 2 /\ edges[2].weight = 1
    /\ rawC[IndexOf(nodes, edges[1].from)][IndexOf(nodes, edges[1].to)] = 1

-----------------------------------------------------------------------------
(* compute under DEFAULT_CONFIG on the graphs of the engine's tests.       *)
(* Fifty passes at decay 0.85 are beyond exact rationals in machine        *)
(* integers, so here the doubles t[i] are carried as whole multiples of    *)
(* 1 / Scale, every product rounded down; one pass is off by less than     *)
(* n / Scale per entry, and the error of t never exceeds n / (0.15 Scale). *)

Scale == 10000000

DEFAULT_CONFIG ==
    [maxIterations |-> 50,
     convergenceThreshold |-> Rat(1, 10000),
     decayFactor |-> Rat(85, 100)]

makeEdge(from, to, weight) == [from |-> from, to |-> to, weight |-> weight]

\* The edge lists and pre-trusted sets of the tests.  A row of C is divided
\* by its sum, so the weights 0.9 and 0.1 of row A are written 9 and 1.
TestGraphs ==
    { [edges |-> <<makeEdge("A", "D", 1), makeEdge("B", "D", 1),
                   makeEdge("C", "D", 1), makeEdge("D", "A", 1)>>,
       preTrusted |-> {}],
      [edges |-> <<makeEdge("A", "B", 1), makeEdge("B", "C", 1),
                   makeEdge("C", "A", 1)>>,
       preTrusted |-> {"A"}],
      [edges |-> <<makeEdge("A", "B", 9), makeEdge("A", "C", 1),
                   makeEdge("B", "A", 1), makeEdge("C", "A", 1)>>,
       preTrusted |-> {}] }

\* a vector of rationals as multiples of 1 / Scale
ToGrid(v) ==
    IF v.den = Scale THEN v
    ELSE Vec([i \in 1..Len(v.num) |-> (v.num[i] * Scale) \div v.den], Scale)

\* the loop body reading C[j][i] where line 100 reads C[i][j]: trust would
\* flow against the edges
LoopBodyGridNotTransposed(Cm, pv, tv, a) ==
    LET n == Len(tv.num)
        sum(j) == SeqSum([i \in 1..n |->
                     (Cm[j][i].num * tv.num[i]) \div Cm[j][i].den], n)
        tNew == [j \in 1..n |->
                     ((a.den - a.num) * pv.num[j] * Scale) \div (a.den * pv.den)
                     + (a.num * sum(j)) \div a.den]
        diff == SeqSum([i \in 1..n |-> Abs(tNew[i] - tv.num[i])], n)
    IN  [t |-> Vec(tNew, Scale), diff |-> Rat(diff, Scale)]

\* the loop body of compute on the grid
LoopBodyGrid(Cm, pv, tv, a) ==
    LET n == Len(tv.num)
        sum(j) == SeqSum([i \in 1..n |->
                     (Cm[i][j].num * tv.num[i]) \div Cm[i][j].den], n)
        tNew == [j \in 1..n |->
                     ((a.den - a.num) * pv.num[j] * Scale) \div (a.den * pv.den)
                     + (a.num * sum(j)) \div a.den]
        diff == SeqSum([i \in 1..n |-> Abs(tNew[i] - tv.num[i])], n)
    IN  [t |-> Vec(tNew, Scale), diff |-> Rat(diff, Scale)]

DefaultInit ==
    /\ StoreIdle
    /\ \E g \in TestGraphs : edges = g.edges /\ preTrusted = g.preTrusted
    /\ config = DEFAULT_CONFIG
    /\ pc = "start"
    /\ nodes = <<>>
    /\ rawC = <<>>
    /\ C = <<>>
    /\ p = NoVec
    /\ t = NoVec
    /\ tPrev = NoVec
    /\ iterations = 0
    /\ converged = FALSE
    /\ lastDiff = NoDiff
    /\ scores = <<>>

\* one pass through the while body, lines 92-118, on the grid
ComputeIterateGrid ==
    /\ pc = "loop"
    /\ LoopGuard(iterations, config)
    /\ LET r == LoopBodyGrid(C, p, ToGrid(t), config.decayFactor)
       IN  /\ t' = r.t
           /\ tPrev' = t
           /\ lastDiff' = r.diff
           /\ iterations' = iterations + 1
           /\ IF BelowThreshold(r.diff, config)
              THEN converged' = TRUE /\ pc' = "package"
              ELSE converged' = converged /\ pc' = "loop"
    /\ UNCHANGED <<edges, preTrusted, config, nodes, rawC, C, p, scores>>

DefaultNext ==
    \/ ComputeSetup /\ UNCHANGED <<storeVars, queryVars, runVars, scoreVars, restVars>>
    \/ ComputeIterateGrid /\ UNCHANGED <<storeVars, queryVars, runVars, scoreVars, restVars>>
    \/ ComputeLoopExit /\ UNCHANGED <<storeVars, queryVars, runVars, scoreVars, restVars>>
    \/ ComputeReturn /\ UNCHANGED <<storeVars, queryVars, runVars, scoreVars, restVars>>

DefaultSpec == DefaultInit /\ [][DefaultNext]_vars

\* C12 (as claimed): with the default configuration compute returns
\* converged = true on the hub graph, on the 3-cycle with pre-trusted {A} and
\* on the weighted graph of the tests.
C12_DefaultConfigConverges == pc = "done" => converged

\* what compute returns instead: 50 passes done, the last diff still at
\* least 1.9 times the threshold (the grid error of a diff is below 1e-5)
C12_StopsAtMaxIterations ==
    pc = "done" =>
        /\ ~converged
        /\ iterations = DEFAULT_CONFIG.maxIterations
        /\ lastDiff.num * 10 >= 19 * (Scale \div 10000)

\* ---- directed rings ----

MaxRing == 20

\* the ring of the "larger graph" test on n nodes: node i stands for `N${i}`,
\* edge i goes from node i to node (i + 1) % n
Ring(n, w) == [k \in 1..n |-> makeEdge(k - 1, k % n, w)]

\* the configurations the ring tests construct the engine with, and one
\* that allows a single pass
RingConfigs ==
    { DEFAULT_CONFIG,
      [DEFAULT_CONFIG EXCEPT !.maxIterations = 200],
      [DEFAULT_CONFIG EXCEPT !.maxIterations = 1] }

RingInit ==
    /\ StoreIdle
    /\ \E n \in 2..MaxRing, w \in {1, 2} : edges = Ring(n, w)
    /\ preTrusted = {}
    /\ config \in RingConfigs
    /\ pc = "start"
    /\ nodes = <<>>
    /\ rawC = <<>>
    /\ C = <<>>
    /\ p = NoVec
    /\ t = NoVec
    /\ tPrev = NoVec
    /\ iterations = 0
    /\ converged = FALSE
    /\ lastDiff = NoDiff
    /\ scores = <<>>

\* compute on a ring; the while condition never fails on one (C22 states
\* it), so the fall-through has no step here
RingNext ==
    \/ ComputeSetup /\ UNCHANGED <<storeVars, queryVars, runVars, scoreVars, restVars>>
    \/ ComputeIterate /\ UNCHANGED <<storeVars, queryVars, runVars, scoreVars, restVars>>
    \/ ComputeReturn /\ UNCHANGED <<storeVars, queryVars, runVars, scoreVars, restVars>>

RingSpec == RingInit /\ [][RingNext]_vars

\* C22: on a directed ring of n >= 2 nodes with equal positive weights and
\* no pre-trusted set, compute leaves the loop by convergence, never by
\* exhausting maxIterations, and returns converged = true with n scores,
\* each within 0.05 of 1/n.
C22_RingConverges ==
    LET n == Len(edges)
    IN  /\ pc = "loop" => LoopGuard(iterations, config)
        /\ pc \in {"package", "done"} =>
               (converged /\ 1 <= iterations /\ iterations <= config.maxIterations)
        /\ pc = "done" =>
               /\ DOMAIN scores = 0..(n - 1)
               /\ \A x \in DOMAIN scores :
                      20 * Abs(scores[x].num * n - scores[x].den) < scores[x].den * n

C22_Witness_TwentyNodeRing ==
    /\ pc = "done"
    /\ Len(edges) = 20
    /\ config.maxIterations = 200
    /\ converged
    /\ scores[19] = Rat(1, 20)

C22_Witness_TwoNodeRing ==
    /\ pc = "done"
    /\ Len(edges) = 2
    /\ edges[1].weight = 2
    /\ config.maxIterations = 1
    /\ scores[0] = Rat(1, 2)

\* the hub scenario of the tests: A, B and C each trust D, D trusts A
HubEdges ==
    <<makeEdge("A", "D", 1), makeEdge("B", "D", 1),
      makeEdge("C", "D", 1), makeEdge("D", "A", 1)>>

\* C21: on the hub graph A->D, B->D, C->D, D->A with all weights 1 and no
\* pre-trusted set, the scores compute returns put D strictly above A and
\* strictly above B.
C21_HubOutranks ==
    (pc = "done" /\ edges = HubEdges /\ preTrusted = {}) =>
        /\ {"A", "B", "D"} \subseteq DOMAIN scores
        /\ RatLess(scores["A"], scores["D"])
        /\ RatLess(scores["B"], scores["D"])

C21_Witness_HubReturned ==
    /\ pc = "done"
    /\ edges = HubEdges
    /\ preTrusted = {}
    /\ iterations = 50
    /\ RatLess(scores["B"], scores["A"])

-----------------------------------------------------------------------------
(* GraphService: the edge store *)

\* String.prototype.toLowerCase on the addresses the model uses
ToLowerCase(x) == IF x = "A" THEN "a" ELSE x

\* an Address node without an eigenTrustScore property
NoScore == [num |-> 0, den |-> 0]

SolverIdle ==
    /\ ConnIdle
    /\ AgentIdle
    /\ SyncIdle
    /\ edges = <<>>
    /\ preTrusted = {}
    /\ config = [maxIterations |-> MaxIterations,
                 convergenceThreshold |-> Rat(1, 8),
                 decayFactor |-> Rat(1, 2)]
    /\ pc = "idle"
    /\ nodes = <<>>
    /\ rawC = <<>>
    /\ C = <<>>
    /\ p = NoVec
    /\ t = NoVec
    /\ tPrev = NoVec
    /\ iterations = 0
    /\ converged = FALSE
    /\ lastDiff = NoDiff
    /\ scores = <<>>

\* The query parameters upsertEdge / upsertEdgesBatch send for one edge
EdgeParamsNoLowerCase(e) ==
    [from |-> e.from, to |-> e.to, source |-> e.source,
     weight |-> e.weight, timestamp |-> e.timestamp]

EdgeParams(e) ==
    [from |-> ToLowerCase(e.from), to |-> ToLowerCase(e.to), source |-> e.source,
     weight |-> e.weight, timestamp |-> e.timestamp]

SameRel(r, q) == r.from = q.from /\ r.to = q.to /\ r.source = q.source

\* MERGE (a:Address {address: x}): the node is created when it is missing
MergeNode(ns, x) ==
    IF x \in DOMAIN ns THEN ns ELSE [y \in DOMAIN ns \cup {x} |->
                                        IF y = x THEN NoScore ELSE ns[y]]

\* MERGE (a)-[r:TRUSTS {source: s}]->(b) SET r.weight = w, r.timestamp = ts:
\* every matching relationship is updated; one is created when none matches
MergeRel(rs, q) ==
    IF \E i \in 1..Len(rs) : SameRel(rs[i], q)
    THEN [i \in 1..Len(rs) |-> IF SameRel(rs[i], q) THEN q ELSE rs[i]]
    ELSE Append(rs, q)

\* the UNWIND of upsertEdgesBatch over the first k rows
RECURSIVE MergeRels(_, _, _)
MergeRels(rs, qs, k) ==
    IF k = 0 THEN rs ELSE MergeRel(MergeRels(rs, qs, k - 1), qs[k])

RECURSIVE MergeNodes(_, _, _)
MergeNodes(ns, qs, k) ==
    IF k = 0 THEN ns
    ELSE MergeNode(MergeNode(MergeNodes(ns, qs, k - 1), qs[k].from), qs[k].to)

RawAddresses == {"a", "A", "b"}

Sources == {"s1", "s2"}

\* weight and timestamp of an upserted edge
Payloads == {<<1, 10>>, <<-1, 20>>}

StoredEdges ==
    { [from |-> f, to |-> g, source |-> s, weight |-> w[1], timestamp |-> w[2]] :
      f \in RawAddresses, g \in RawAddresses, s \in Sources, w \in Payloads }

UpsertEdge(e) ==
    /\ Len(upsertLog) < MaxUpserts
    /\ rels' = MergeRel(rels, EdgeParams(e))
    /\ nodeScore' = MergeNode(MergeNode(nodeScore, EdgeParams(e).from), EdgeParams(e).to)
    /\ upsertLog' = Append(upsertLog, e)

UpsertEdgesBatch(es) ==
    /\ Len(upsertLog) + Len(es) <= MaxUpserts
    /\ LET qs == [k \in 1..Len(es) |-> EdgeParams(es[k])]
       IN  /\ rels' = MergeRels(rels, qs, Len(qs))
           /\ nodeScore' = MergeNodes(nodeScore, qs, Len(qs))
    /\ upsertLog' = upsertLog \o es

StoreInit == SolverIdle /\ StoreIdle

StoreNext ==
    \/ \E e \in StoredEdges : UpsertEdge(e) /\ UNCHANGED <<solverVars, queryVars, runVars, scoreVars, restVars>>
    \/ \E k \in 0..(MaxUpserts - Len(upsertLog)) : \E es \in [1..k -> StoredEdges] :
          UpsertEdgesBatch(es) /\ UNCHANGED <<solverVars, queryVars, runVars, scoreVars, restVars>>

StoreSpec == StoreInit /\ [][StoreNext]_vars

KeyOf(e) == <<ToLowerCase(e.from), ToLowerCase(e.to), e.source>>

RelKey(r) == <<r.from, r.to, r.source>>

\* the last entry of the log with key k
LastUpsert(k) ==
    LET i == CHOOSE i \in 1..Len(upsertLog) :
                 /\ KeyOf(upsertLog[i]) = k
                 /\ \A j \in (i + 1)..Len(upsertLog) : KeyOf(upsertLog[j]) # k
    IN  upsertLog[i]

C4_StoreMatchesLog ==
    /\ {RelKey(rels[i]) : i \in 1..Len(rels)} = {KeyOf(upsertLog[i]) : i \in 1..Len(upsertLog)}
    /\ \A i, j \in 1..Len(rels) : RelKey(rels[i]) = RelKey(rels[j]) => i = j
    /\ \A i \in 1..Len(rels) :
          /\ rels[i].weight = LastUpsert(RelKey(rels[i])).weight
          /\ rels[i].timestamp = LastUpsert(RelKey(rels[i])).timestamp

\* C4: after any sequence of upsertEdge and upsertEdgesBatch calls the store
\* holds exactly one edge per distinct (lowercased from, lowercased to,
\* source) triple ever upserted, with the weight and timestamp of the most
\* recent upsert of that triple; and no upsert lowers the edge count.
C4_UpsertSemantics ==
    /\ [] C4_StoreMatchesLog
    /\ [][Len(rels') >= Len(rels)]_vars

C4_Witness_Superseded ==
    /\ Len(upsertLog) = 2
    /\ Len(rels) = 1
    /\ \E i, j \in 1..2 :
          /\ i < j
          /\ upsertLog[i].from # upsertLog[j].from
          /\ KeyOf(upsertLog[i]) = KeyOf(upsertLog[j])
          /\ upsertLog[i].weight # upsertLog[j].weight

-----------------------------------------------------------------------------
(* EigenTrustEngine.scoreFor and topN, called on what compute returned.    *)
(* compute keeps the node ids as the edges spell them, so the ids here     *)
(* come in both letter cases.                                              *)

MaxTop == 3

EngineNodeIds == {"A", "a", "b"}

EngineEdgeLists ==
    UNION {[1..k -> [from : EngineNodeIds, to : EngineNodeIds, weight : {1, 2}]] :
           k \in 0..MaxEdges}

EngineAddresses == {"A", "a", "b", "z"}

\* the EigenTrustResult compute returned; keys is the insertion order of the Map
Result == [scores |-> scores, keys |-> nodes,
           iterations |-> iterations, converged |-> converged]

\* result.scores.get(address.toLowerCase()) ?? 0
ScoreFor(result, address) ==
    LET key == ToLowerCase(address)
    IN  IF key \in DOMAIN result.scores THEN result.scores[key] ELSE Rat(0, 1)

\* Array.from(result.scores.entries())
Entries(result) ==
    [i \in 1..Len(result.keys) |-> <<result.keys[i], result.scores[result.keys[i]]>>]

InsertBeforeTies(sorted, e) ==
    LET before == {i \in 1..Len(sorted) : RatLess(e[2], sorted[i][2])}
        k == Cardinality(before)
    IN  SubSeq(sorted, 1, k) \o <<e>> \o SubSeq(sorted, k + 1, Len(sorted))

\* e goes behind every entry the comparator (a, b) => b[1] - a[1] does not
\* put behind it: the sort is stable
InsertSorted(sorted, e) ==
    LET before == {i \in 1..Len(sorted) : ~RatLess(sorted[i][2], e[2])}
        k == Cardinality(before)
    IN  SubSeq(sorted, 1, k) \o <<e>> \o SubSeq(sorted, k + 1, Len(sorted))

\* .sort((a, b) => b[1] - a[1]) of the first k entries
RECURSIVE SortEntries(_, _)
SortEntries(es, k) ==
    IF k = 0 THEN <<>>
    ELSE TheOnly({ InsertSorted(sorted, es[k]) : sorted \in {SortEntries(es, k - 1)} })

\* .slice(0, n) for n >= 0
Slice(s, n) == SubSeq(s, 1, IF n < Len(s) THEN n ELSE Len(s))

TopN(result, n) ==
    LET top == Slice(SortEntries(Entries(result), Len(result.keys)), n)
    IN  [i \in 1..Len(top) |-> [address |-> top[i][1], score |-> top[i][2]]]

EngineInit ==
    /\ StoreIdle
    /\ edges \in EngineEdgeLists
    /\ preTrusted \in {{}, {"b"}}
    /\ config = [maxIterations |-> MaxIterations,
                 convergenceThreshold |-> Rat(1, 8),
                 decayFactor |-> Rat(1, 2)]
    /\ pc = "start"
    /\ nodes = <<>>
    /\ rawC = <<>>
    /\ C = <<>>
    /\ p = NoVec
    /\ t = NoVec
    /\ tPrev = NoVec
    /\ iterations = 0
    /\ converged = FALSE
    /\ lastDiff = NoDiff
    /\ scores = <<>>

ScoreForCall(address) ==
    /\ pc = "done"
    /\ lastQuery = NoQuery
    /\ lastQuery' = [op |-> "scoreFor", address |-> address,
                     returned |-> ScoreFor(Result, address)]
    /\ UNCHANGED solverVars

TopNCall(n) ==
    /\ pc = "done"
    /\ lastQuery = NoQuery
    /\ lastQuery' = [op |-> "topN", n |-> n, returned |-> TopN(Result, n)]
    /\ UNCHANGED solverVars

EngineReturn ==
    /\ lastQuery # NoQuery
    /\ lastQuery' = NoQuery
    /\ UNCHANGED solverVars

EngineNext ==
    \/ ComputeEmpty /\ UNCHANGED <<storeVars, queryVars, runVars, scoreVars, restVars>>
    \/ ComputeSetup /\ UNCHANGED <<storeVars, queryVars, runVars, scoreVars, restVars>>
    \/ ComputeIterate /\ UNCHANGED <<storeVars, queryVars, runVars, scoreVars, restVars>>
    \/ ComputeLoopExit /\ UNCHANGED <<storeVars, queryVars, runVars, scoreVars, restVars>>
    \/ ComputeReturn /\ UNCHANGED <<storeVars, queryVars, runVars, scoreVars, restVars>>
    \/ \E address \in EngineAddresses :
          ScoreForCall(address) /\ UNCHANGED <<storeVars, runVars, scoreVars, restVars>>
    \/ \E n \in 0..MaxTop :
          TopNCall(n) /\ UNCHANGED <<storeVars, runVars, scoreVars, restVars>>
    \/ EngineReturn /\ UNCHANGED <<storeVars, runVars, scoreVars, restVars>>

EngineSpec == EngineInit /\ [][EngineNext]_vars

\* C13 (as claimed): scoreFor(result, nodeId) returns result.scores[nodeId]
\* for every key of result.scores and 0 for every node id that is not a key.
C13_ScoreForLooksUp ==
    lastQuery.op = "scoreFor" =>
        lastQuery.returned =
            IF lastQuery.address \in DOMAIN scores
            THEN scores[lastQuery.address]
            ELSE Rat(0, 1)

\* what holds of scoreFor: the lookup is by the lowercased id
C13_ScoreForLooksUpLowerCased ==
    lastQuery.op = "scoreFor" =>
        lastQuery.returned =
            IF ToLowerCase(lastQuery.address) \in DOMAIN scores
            THEN scores[ToLowerCase(lastQuery.address)]
            ELSE Rat(0, 1)

Position(x) == CHOOSE i \in 1..Len(nodes) : nodes[i] = x

C14_Returned ==
    LET top == lastQuery.returned
        N == Len(nodes)
        in == {top[i].address : i \in 1..Len(top)}
        out == {nodes[i] : i \in 1..N} \ in
    IN  /\ Len(top) = (IF lastQuery.n < N THEN lastQuery.n ELSE N)
        /\ \A i \in 1..Len(top) :
              /\ top[i].address \in DOMAIN scores
              /\ top[i].score = scores[top[i].address]
        /\ \A i, j \in 1..Len(top) :
              i < j => /\ top[i].address # top[j].address
                       /\ ~RatLess(top[i].score, top[j].score)
                       /\ top[i].score = top[j].score
                             => Position(top[i].address) < Position(top[j].address)
        /\ \A x \in out : \A i \in 1..Len(top) :
              /\ ~RatLess(top[i].score, scores[x])
              /\ scores[x] = top[i].score => Position(top[i].address) < Position(x)

\* C14: topN(result, n), n >= 0, returns min(n, number of scored nodes)
\* entries of result.scores in non-increasing score order, no node left out
\* scores more than a returned one, equal scores keep the order in which
\* compute enumerated the nodes, and no step of topN changes result.scores.
C14_TopN ==
    /\ [](lastQuery.op = "topN" => C14_Returned)
    /\ [][lastQuery'.op = "topN" => (scores' = scores /\ nodes' = nodes)]_vars

C14_Witness_TieCutByN ==
    /\ lastQuery.op = "topN"
    /\ lastQuery.n = 2
    /\ Len(nodes) = 3
    /\ \E i, j \in 1..3 : i # j /\ scores[nodes[i]] = scores[nodes[j]]
    /\ lastQuery.returned[1].address # nodes[1]
    /\ \E i \in 1..3 :
          /\ scores[nodes[i]] = lastQuery.returned[2].score
          /\ nodes[i] # lastQuery.returned[2].address
          /\ nodes[i] # lastQuery.returned[1].address

-----------------------------------------------------------------------------
(* GraphService: the read operations *)

IsChainBackwards(w, x, y) ==
    /\ Len(w) >= 1
    /\ rels[w[1]].to = x
    /\ rels[w[Len(w)]].from = y
    /\ \A i \in 1..(Len(w) - 1) : rels[w[i]].from = rels[w[i + 1]].to

\* a relationship sequence is a forward chain from x to y
IsChain(w, x, y) ==
    /\ Len(w) >= 1
    /\ rels[w[1]].from = x
    /\ rels[w[Len(w)]].to = y
    /\ \A i \in 1..(Len(w) - 1) : rels[w[i]].to = rels[w[i + 1]].from

\* (a {address: x})-[:TRUSTS*k]->(b {address: y})
PathsOfLength(k, x, y) == {w \in [1..k -> 1..Len(rels)] : IsChain(w, x, y)}

\* shortestPath(... *1..maxHops ...): the paths with the fewest relationships
ShortestPaths(x, y, maxHops) ==
    LET ks == {k \in 1..maxHops : PathsOfLength(k, x, y) # {}}
    IN  IF ks = {} THEN {}
        ELSE PathsOfLength(CHOOSE k \in ks : \A m \in ks : k <= m, x, y)

RECURSIVE WeightSum(_, _)
WeightSum(w, k) == IF k = 0 THEN 0 ELSE WeightSum(w, k - 1) + rels[w[k]].weight

\* the GraphPath built from the returned record
GraphPathCountingNodes(w) ==
    [nodes |-> [i \in 1..(Len(w) + 1) |->
                   IF i = 1 THEN rels[w[1]].from ELSE rels[w[i - 1]].to],
     edges |-> [i \in 1..Len(w) |-> rels[w[i]]],
     totalWeight |-> [num |-> WeightSum(w, Len(w)), den |-> Len(w)],
     hops |-> Len(w) + 1]

GraphPath(w) ==
    [nodes |-> [i \in 1..(Len(w) + 1) |->
                   IF i = 1 THEN rels[w[1]].from ELSE rels[w[i - 1]].to],
     edges |-> [i \in 1..Len(w) |-> rels[w[i]]],
     totalWeight |-> [num |-> WeightSum(w, Len(w)), den |-> Len(w)],
     hops |-> Len(w)]

FindTrustPath(from, to, maxHops) ==
    LET x == ToLowerCase(from)
        y == ToLowerCase(to)
        q == [op |-> "findTrustPath", from |-> from, to |-> to, maxHops |-> maxHops]
    IN  \/ /\ lastQuery = NoQuery
           /\ x = y
           /\ x \in DOMAIN nodeScore
           \* shortestPath with identical start and end node is a query error
           /\ lastQuery' = q @@ [outcome |-> "throws"]
        \/ /\ lastQuery = NoQuery
           /\ ~(x = y /\ x \in DOMAIN nodeScore)
           /\ ShortestPaths(x, y, maxHops) = {}
           /\ lastQuery' = q @@ [outcome |-> "null"]
        \/ /\ lastQuery = NoQuery
           /\ ~(x = y /\ x \in DOMAIN nodeScore)
           /\ \E w \in ShortestPaths(x, y, maxHops) :
                 lastQuery' = q @@ [outcome |-> "path", path |-> GraphPath(w)]

Successors(S) == {rels[i].to : i \in {j \in 1..Len(rels) : rels[j].from \in S}}

\* apoc.path.subgraphNodes(center, {maxLevel: depth, relationshipFilter: "TRUSTS>"})
RECURSIVE SubgraphNodes(_, _)
SubgraphNodes(center, depth) ==
    IF depth = 0 THEN {center}
    ELSE LET prev == SubgraphNodes(center, depth - 1)
         IN  prev \cup Successors(prev)

\* the second query of getNeighborhood
EdgesOnlyFromCenter(addresses, addr) ==
    {rels[i] : i \in {j \in 1..Len(rels) : rels[j].from = addr /\ rels[j].to \in addresses}}

\* the third query with only b.address IN $addresses
EdgesInto(addresses, addr) ==
    {rels[i] : i \in {j \in 1..Len(rels) : rels[j].to \in addresses}}

\* the third query of getNeighborhood: both ends among the addresses
EdgesAmong(addresses, addr) ==
    {rels[i] : i \in {j \in 1..Len(rels) :
                         rels[j].from \in addresses /\ rels[j].to \in addresses}}

\* the GraphNeighborhood getNeighborhood resolves with
NeighborhoodOf(addr, depth) ==
    LET found == IF addr \in DOMAIN nodeScore THEN SubgraphNodes(addr, depth) ELSE {}
    IN  [center |-> addr, nodes |-> found, edges |-> EdgesAmong({addr} \cup found, addr)]

GetNeighborhood(address, depth, apoc) ==
    LET addr == ToLowerCase(address)
        q == [op |-> "getNeighborhood", address |-> address, depth |-> depth]
    IN  /\ lastQuery = NoQuery
        /\ IF apoc
           THEN lastQuery' = q @@ [outcome |-> "neighborhood"] @@ NeighborhoodOf(addr, depth)
           ELSE lastQuery' = q @@ [outcome |-> "throws"]

\* one row per matched relationship: each list is kept as node -> number of
\* rows naming it
DirectConnectionsOf(addr) ==
    LET ins == {i \in 1..Len(rels) : rels[i].to = addr}
        outs == {i \in 1..Len(rels) : rels[i].from = addr}
    IN  [trustors |-> [n \in {rels[i].from : i \in ins} |->
                          Cardinality({i \in ins : rels[i].from = n})],
         trustees |-> [n \in {rels[i].to : i \in outs} |->
                          Cardinality({i \in outs : rels[i].to = n})]]

GetDirectConnections(address) ==
    /\ lastQuery = NoQuery
    /\ lastQuery' = [op |-> "getDirectConnections", address |-> address,
                     outcome |-> "lists"] @@ DirectConnectionsOf(ToLowerCase(address))

\* finally { await session.close() }: the caller has the result (or the
\* error) and the service is ready for its next call
QueryReturn ==
    /\ lastQuery # NoQuery
    /\ lastQuery' = NoQuery

QueryNodes == {"a", "b", "c"}

QueryAddresses == {"A", "b", "c"}

QueryKeys == {<<f, g, s>> : f \in QueryNodes, g \in QueryNodes, s \in Sources}

\* the edge stored under a key: s2 edges carry a negative weight
QueryEdge(k) ==
    [from |-> k[1], to |-> k[2], source |-> k[3],
     weight |-> IF k[3] = "s1" THEN 1 ELSE -1, timestamp |-> 10]

RECURSIVE SetToSeq(_)
SetToSeq(S) ==
    IF S = {} THEN <<>>
    ELSE LET x == CHOOSE x \in S : TRUE IN <<x>> \o SetToSeq(S \ {x})

QueryStores ==
    {SetToSeq({QueryEdge(k) : k \in S}) :
        S \in {T \in SUBSET QueryKeys : Cardinality(T) <= MaxStoreEdges}}

QueryInit ==
    /\ SolverIdle
    /\ QueryIdle
    /\ RunsIdle
    /\ ScoreIdle
    /\ rels \in QueryStores
    /\ upsertLog = rels
    /\ nodeScore = [n \in {rels[i].from : i \in 1..Len(rels)}
                         \cup {rels[i].to : i \in 1..Len(rels)} |-> NoScore]

QueryNext ==
    \/ \E from \in QueryAddresses, to \in QueryAddresses, maxHops \in 1..MaxHops :
          FindTrustPath(from, to, maxHops) /\ UNCHANGED <<solverVars, storeVars, runVars, scoreVars, restVars>>
    \/ \E address \in QueryAddresses, depth \in 1..MaxDepth, apoc \in BOOLEAN :
          GetNeighborhood(address, depth, apoc) /\ UNCHANGED <<solverVars, storeVars, runVars, scoreVars, restVars>>
    \/ \E address \in QueryAddresses :
          GetDirectConnections(address) /\ UNCHANGED <<solverVars, storeVars, runVars, scoreVars, restVars>>
    \/ QueryReturn /\ UNCHANGED <<solverVars, storeVars, runVars, scoreVars, restVars>>

QuerySpec == QueryInit /\ [][QueryNext]_vars

\* nodes at exactly k forward steps from x
RECURSIVE Frontier(_, _)
Frontier(x, k) == IF k = 0 THEN {x} ELSE Successors(Frontier(x, k - 1))

RECURSIVE Predecessors(_, _)
Predecessors(x, k) ==
    IF k = 0 THEN {x}
    ELSE {rels[i].from : i \in {j \in 1..Len(rels) : rels[j].to \in Predecessors(x, k - 1)}}

HopCounts(x, y, maxHops) == {k \in 1..maxHops : y \in Frontier(x, k)}

IsForwardPath(path) ==
    /\ Len(path.nodes) = path.hops + 1
    /\ Len(path.edges) = path.hops
    /\ \A i \in 1..path.hops :
          /\ \E j \in 1..Len(rels) : rels[j] = path.edges[i]
          /\ path.edges[i].from = path.nodes[i]
          /\ path.edges[i].to = path.nodes[i + 1]

\* C6: for lowercased-distinct from and to, findTrustPath returns a path iff
\* the stored graph has a directed path of 1..maxHops forward edges; the
\* returned hops is the fewest edges of any such path, the path runs from
\* `from` to `to` along stored edges in their own direction, and the result
\* is null otherwise (also when maxHops is below the shortest distance).
C6_ShortestPathByHops ==
    (lastQuery.op = "findTrustPath" /\ ToLowerCase(lastQuery.from) # ToLowerCase(lastQuery.to)) =>
        LET x == ToLowerCase(lastQuery.from)
            y == ToLowerCase(lastQuery.to)
            ks == HopCounts(x, y, lastQuery.maxHops)
        IN  /\ lastQuery.outcome \in {"null", "path"}
            /\ lastQuery.outcome = "path" <=> ks # {}
            /\ lastQuery.outcome = "path" =>
                  /\ lastQuery.path.hops \in ks
                  /\ \A k \in ks : lastQuery.path.hops <= k
                  /\ IsForwardPath(lastQuery.path)
                  /\ lastQuery.path.nodes[1] = x
                  /\ lastQuery.path.nodes[lastQuery.path.hops + 1] = y

\* a 2-hop path was returned although the reverse direction is one hop away
C6_Witness_TwoHopsForward ==
    /\ lastQuery.op = "findTrustPath"
    /\ lastQuery.outcome = "path"
    /\ lastQuery.path.hops = 2
    /\ lastQuery.from = "A"
    /\ ToLowerCase(lastQuery.to) \in Predecessors(ToLowerCase(lastQuery.from), 1)

\* null although the target is two forward hops away: maxHops is too small
C6_Witness_MaxHopsTooSmall ==
    /\ lastQuery.op = "findTrustPath"
    /\ lastQuery.outcome = "null"
    /\ lastQuery.maxHops = 1
    /\ ToLowerCase(lastQuery.to) \in Frontier(ToLowerCase(lastQuery.from), 2)
    /\ ToLowerCase(lastQuery.to) # ToLowerCase(lastQuery.from)

\* n is the end of a walk of 1..depth forward edges from x
ReachableWithin(x, n, depth) ==
    \E k \in 1..depth : \E w \in [1..k -> 1..Len(rels)] : IsChain(w, x, n)

NeighborhoodSet(x, depth) ==
    {x} \cup {n \in DOMAIN nodeScore : ReachableWithin(x, n, depth)}

\* C7: getNeighborhood(center, depth).edges is exactly the set of stored
\* edges with both endpoints in {center} + the nodes reachable from center
\* by 1..depth forward edges.
C7_NeighborhoodComplete ==
    (lastQuery.op = "getNeighborhood" /\ lastQuery.outcome = "neighborhood") =>
        LET N == NeighborhoodSet(ToLowerCase(lastQuery.address), lastQuery.depth)
        IN  lastQuery.edges =
                {rels[i] : i \in {j \in 1..Len(rels) : rels[j].from \in N /\ rels[j].to \in N}}

\* the result holds an edge between two non-center nodes and the store holds
\* an edge that leaves the neighborhood
C7_Witness_CrossEdge ==
    /\ lastQuery.op = "getNeighborhood"
    /\ lastQuery.outcome = "neighborhood"
    /\ lastQuery.address = "A"
    /\ \E e \in lastQuery.edges : e.from # lastQuery.center /\ e.to # lastQuery.center
    /\ \E i \in 1..Len(rels) : rels[i] \notin lastQuery.edges

\* C8: getDirectConnections lists as trustors every node with an edge into
\* address and as trustees every node address has an edge to, whatever the
\* weight, each node id at most once per list.
C8_DirectConnectionsDeduplicated ==
    lastQuery.op = "getDirectConnections" =>
        LET addr == ToLowerCase(lastQuery.address)
        IN  /\ DOMAIN lastQuery.trustors = Predecessors(addr, 1)
            /\ DOMAIN lastQuery.trustees = Frontier(addr, 1)
            /\ \A n \in DOMAIN lastQuery.trustors : lastQuery.trustors[n] <= 1
            /\ \A n \in DOMAIN lastQuery.trustees : lastQuery.trustees[n] <= 1

\* C17: every path findTrustPath returns has one edge less than it has nodes,
\* hops = number of edges with 1 <= hops <= maxHops, starts at the lowercased
\* from and ends at the lowercased to, and edge i leads from node i to node i+1.
C17_GraphPathWellFormed ==
    (lastQuery.op = "findTrustPath" /\ lastQuery.outcome = "path") =>
        LET path == lastQuery.path
        IN  /\ Len(path.edges) = Len(path.nodes) - 1
            /\ path.hops = Len(path.edges)
            /\ 1 <= path.hops /\ path.hops <= lastQuery.maxHops
            /\ path.nodes[1] = ToLowerCase(lastQuery.from)
            /\ path.nodes[Len(path.nodes)] = ToLowerCase(lastQuery.to)
            /\ \A i \in 1..Len(path.edges) :
                  /\ path.edges[i].from = path.nodes[i]
                  /\ path.edges[i].to = path.nodes[i + 1]

C17_Witness_LongestAllowedPath ==
    /\ lastQuery.op = "findTrustPath"
    /\ lastQuery.outcome = "path"
    /\ lastQuery.from = "A"
    /\ lastQuery.maxHops = 2
    /\ Len(lastQuery.path.nodes) = 3
    /\ lastQuery.path.nodes[1] = "a"

-----------------------------------------------------------------------------
(* TrustScoreTool.recomputeGlobalScores, run concurrently *)

\* getAllEdges has no ORDER BY: the rows come back in any order
GetAllEdges ==
    {[i \in 1..Len(rels) |-> rels[f[i]]] : f \in Permutations(1..Len(rels))}

\* UNWIND $entries ... MATCH (n:Address {address}) SET n.eigenTrustScore:
\* one write transaction
StoreEigenTrustScoresIfUnset(ns, sc) ==
    [n \in DOMAIN ns |-> IF n \in DOMAIN sc /\ ns[n] = NoScore THEN sc[n] ELSE ns[n]]

StoreEigenTrustScores(ns, sc) ==
    [n \in DOMAIN ns |-> IF n \in DOMAIN sc THEN sc[n] ELSE ns[n]]

\* const allEdges = await getAllEdges(); const result = compute(allEdges)
RecomputeRead(r) ==
    /\ runPc[r] = "idle"
    /\ \E allEdges \in GetAllEdges :
          /\ runSnapshot' = [runSnapshot EXCEPT ![r] = allEdges]
          /\ runResult' = [runResult EXCEPT ![r] = Compute(allEdges, {}, config).scores]
    /\ runPc' = [runPc EXCEPT ![r] = "computed"]
    /\ UNCHANGED <<storeOrder, rels, nodeScore, upsertLog>>

\* await storeEigenTrustScores(result.scores)
RecomputeStore(r) ==
    /\ runPc[r] = "computed"
    /\ nodeScore' = StoreEigenTrustScores(nodeScore, runResult[r])
    /\ storeOrder' = Append(storeOrder, r)
    /\ runPc' = [runPc EXCEPT ![r] = "done"]
    /\ UNCHANGED <<runSnapshot, runResult, rels, upsertLog>>

RecomputeEdges ==
    { [from |-> f, to |-> g, source |-> s, weight |-> w, timestamp |-> 10] :
      f \in {"a", "b"}, g \in {"b", "c"}, s \in {"s1"}, w \in {1, 2} }

RecomputeInit == SolverIdle /\ StoreIdle

RecomputeNext ==
    \/ \E e \in RecomputeEdges : UpsertEdge(e) /\ UNCHANGED <<solverVars, queryVars, runVars, scoreVars, restVars>>
    \/ \E r \in Runs : RecomputeRead(r) /\ UNCHANGED <<solverVars, queryVars, scoreVars, restVars>>
    \/ \E r \in Runs : RecomputeStore(r) /\ UNCHANGED <<solverVars, queryVars, scoreVars, restVars>>

RecomputeSpec == RecomputeInit /\ [][RecomputeNext]_vars

AllRunsFinished == \A r \in Runs : runPc[r] = "done"

NodesWithEdge ==
    {rels[i].from : i \in 1..Len(rels)} \cup {rels[i].to : i \in 1..Len(rels)}

\* C5 as stated: once all runs have finished, every node that has an edge
\* holds the value of the score vector of the run that stored last.
C5_LastWriteWinsWholeVector ==
    AllRunsFinished =>
        LET last == runResult[storeOrder[Len(storeOrder)]]
        IN  \A n \in NodesWithEdge : n \in DOMAIN last /\ nodeScore[n] = last[n]

\* the positions in storeOrder of the writes whose vector holds node n
WritesOf(n) == {i \in 1..Len(storeOrder) : n \in DOMAIN runResult[storeOrder[i]]}

\* C5 amended: once all runs have finished, each node holds the value it has
\* in the vector of the last-executed write among the runs whose snapshot
\* contained the node; a node in no run's snapshot has no score.
C5_PerNodeLastWriteWins ==
    AllRunsFinished =>
        \A n \in DOMAIN nodeScore :
            IF WritesOf(n) = {}
            THEN nodeScore[n] = NoScore
            ELSE LET i == CHOOSE i \in WritesOf(n) : \A j \in WritesOf(n) : j <= i
                 IN  nodeScore[n] = runResult[storeOrder[i]][n]

\* both runs stored; the last write overwrote a different value on one node
\* and left another node with the earlier run's value
C5_Witness_StaleLastWriter ==
    /\ AllRunsFinished
    /\ LET first == runResult[storeOrder[1]]
           last == runResult[storeOrder[Len(storeOrder)]]
       IN  /\ \E n \in DOMAIN first \cap DOMAIN last :
                 first[n] # last[n] /\ nodeScore[n] = last[n]
           /\ \E n \in DOMAIN first \ DOMAIN last : nodeScore[n] = first[n]

-----------------------------------------------------------------------------
(* TrustScoreTool.score and the helpers it uses.  Factor weights and the
   confidence are kept in hundredths (0.35 is 35); a description is kept as
   the numbers it prints. *)

\* /^0x[a-fA-F0-9]{40}$/ on the addresses the model uses
IsValidAddress(x) == x \in {"a", "A", "b", "c"}

FloorDiv(n, d) == n \div d

\* Math.round(n / d) for n >= 0, d > 0
RoundDiv(n, d) == (2 * n + d) \div (2 * d)

\* the thresholds compared with > where lines 15-19 compare with >=
ScoreToLevelExclusive(score) ==
    IF score > 85 THEN "very_high"
    ELSE IF score > 70 THEN "high"
    ELSE IF score > 50 THEN "moderate"
    ELSE IF score > 30 THEN "low"
    ELSE IF score > 10 THEN "suspicious"
    ELSE "unknown"

\* helpers.ts lines 14-21
ScoreToLevel(score) ==
    IF score >= 85 THEN "very_high"
    ELSE IF score >= 70 THEN "high"
    ELSE IF score >= 50 THEN "moderate"
    ELSE IF score >= 30 THEN "low"
    ELSE IF score >= 10 THEN "suspicious"
    ELSE "unknown"

RECURSIVE TotalWeight(_, _)
TotalWeight(items, k) ==
    IF k = 0 THEN 0 ELSE TotalWeight(items, k - 1) + items[k].weight

RECURSIVE WeightedSum(_, _)
WeightedSum(items, k) ==
    IF k = 0 THEN 0 ELSE WeightedSum(items, k - 1) + items[k].score * items[k].weight

WeightedAverage(items) ==
    LET totalWeight == TotalWeight(items, Len(items))
    IN  IF totalWeight = 0 THEN 0
        ELSE RoundDiv(WeightedSum(items, Len(items)), totalWeight)

CalculateConfidenceAllOrNothing(hasGraph, hasAttestations, hasOnChain) ==
    IF hasGraph /\ hasAttestations /\ hasOnChain THEN 95
    ELSE IF hasGraph \/ hasAttestations \/ hasOnChain THEN 50
    ELSE 10

\* in hundredths
CalculateConfidence(hasGraph, hasAttestations, hasOnChain) ==
    LET sources == (IF hasGraph THEN 1 ELSE 0) + (IF hasAttestations THEN 1 ELSE 0)
                   + (IF hasOnChain THEN 1 ELSE 0)
    IN  IF sources = 3 THEN 95
        ELSE IF sources = 2 THEN 75
        ELSE IF sources = 1 THEN 50
        ELSE 10

Factor(name, score, weight, description) ==
    [name |-> name, score |-> score, weight |-> weight, description |-> description]

\* ---- computeEigenTrust ----

RatMax(S) == CHOOSE m \in S : \A x \in S : ~RatLess(m, x)

\* normalizeScore(raw, 0, max) for raw >= 0
NormalizeScore(raw, max) ==
    LET clamped == IF RatLess(max, raw) THEN max ELSE raw
        g == GCD(clamped.den, max.den)
    IN  RoundDiv(100 * clamped.num * (max.den \div g), max.num * (clamped.den \div g))

\* the orders in which a query can return a set of rows
SeqsOf(S) ==
    {f \in [1..Cardinality(S) -> S] : \A i, j \in 1..Cardinality(S) : i # j => f[i] # f[j]}

RECURSIVE RowCount(_)
RowCount(b) ==
    IF DOMAIN b = {} THEN 0
    ELSE LET n == CHOOSE n \in DOMAIN b : TRUE
         IN  b[n] + RowCount([m \in DOMAIN b \ {n} |-> b[m]])

EigenTrustFactors(target, neighborhood, es) ==
    IF Len(es) = 0 THEN <<>>
    ELSE LET result == Compute(es, {}, config)
             rawScore == IF target \in DOMAIN result.scores
                         THEN result.scores[target] ELSE Rat(0, 1)
             maxScore == RatMax({result.scores[n] : n \in DOMAIN result.scores}
                                \cup {Rat(1, 1000)})
             connections == DirectConnectionsOf(target)
         IN  << Factor("Graph Trust (EigenTrust)", NormalizeScore(rawScore, maxScore), 35,
                       << Cardinality(neighborhood.nodes),
                          RowCount(connections.trustors),
                          RowCount(connections.trustees) >>) >>

\* ---- IntuitionService, as computeAttestationFactors sees it ----

\* fetchAttestationsForAddress: a failed request is logged and becomes []
FetchAttestationsForAddress ==
    IF scoreWorld.triples.ok THEN scoreWorld.triples.values ELSE <<>>

\* getAccountStats: a failed request or a missing account becomes null
GetAccountStats ==
    IF scoreWorld.stats.ok /\ scoreWorld.stats.account
    THEN [present |-> TRUE, totalStaked |-> scoreWorld.stats.totalStaked]
    ELSE [present |-> FALSE, totalStaked |-> 0]

ScoreAttestationCount(count) ==
    IF count >= 50 THEN 100
    ELSE IF count >= 20 THEN 80
    ELSE IF count >= 10 THEN 60
    ELSE IF count >= 5 THEN 40
    ELSE IF count >= 1 THEN 20
    ELSE 0

ScoreStakeWeight(totalShares) ==
    IF totalShares >= 1000000 THEN 100
    ELSE IF totalShares >= 100000 THEN 80
    ELSE IF totalShares >= 10000 THEN 60
    ELSE IF totalShares >= 1000 THEN 40
    ELSE IF totalShares >= 100 THEN 20
    ELSE 0

AttestationFactors(attestations, stats) ==
    IF Len(attestations) = 0 /\ ~stats.present THEN <<>>
    ELSE LET attCount == Len(attestations)
             positive == Cardinality({i \in 1..attCount : attestations[i] > 0})
             negative == Cardinality({i \in 1..attCount : attestations[i] < 0})
         IN  << Factor("Attestation Volume", ScoreAttestationCount(attCount), 15,
                       <<attCount>>) >>
             \o (IF attCount > 0
                 THEN << Factor("Attestation Sentiment", RoundDiv(positive * 100, attCount),
                                15, <<positive, negative>>) >>
                 ELSE <<>>)
             \o (IF stats.present /\ stats.totalStaked > 0
                 THEN << Factor("Stake Weight", ScoreStakeWeight(stats.totalStaked), 10,
                                <<stats.totalStaked>>) >>
                 ELSE <<>>)

\* ---- OnChainAnalyzer ----

ChainOrder == <<"ethereum", "base">>

\* analyzeOnChain: null for an address without transactions
AnalyzeOnChain(c) ==
    [address |-> ToLowerCase(scoreQuery.target), chain |-> c,
     transactionCount |-> scoreWorld.chains[c].txCount,
     uniqueInteractions |-> (scoreWorld.chains[c].txCount * 7) \div 10,
     contractsDeployed |-> 0,
     age |-> scoreWorld.chains[c].age]

\* analyze: a chain whose request throws is logged and skipped
RECURSIVE Analyze(_)
Analyze(k) ==
    IF k = 0 THEN <<>>
    ELSE LET c == ChainOrder[k]
         IN  IF scoreWorld.chains[c].ok /\ scoreWorld.chains[c].txCount # 0
             THEN Append(Analyze(k - 1), AnalyzeOnChain(c))
             ELSE Analyze(k - 1)

ScoreAge(days) ==
    IF days >= 730 THEN 100
    ELSE IF days >= 365 THEN 80
    ELSE IF days >= 180 THEN 60
    ELSE IF days >= 30 THEN 30
    ELSE IF days >= 7 THEN 15
    ELSE 0

ScoreTxCount(count) ==
    IF count >= 1000 THEN 100
    ELSE IF count >= 500 THEN 85
    ELSE IF count >= 100 THEN 70
    ELSE IF count >= 50 THEN 55
    ELSE IF count >= 10 THEN 35
    ELSE IF count >= 1 THEN 15
    ELSE 0

ScoreDiversity(uniqueAddresses) ==
    IF uniqueAddresses >= 500 THEN 100
    ELSE IF uniqueAddresses >= 200 THEN 85
    ELSE IF uniqueAddresses >= 50 THEN 65
    ELSE IF uniqueAddresses >= 20 THEN 45
    ELSE IF uniqueAddresses >= 5 THEN 25
    ELSE 0

ScoreChainPresence(chainCount) ==
    IF chainCount >= 3 THEN 100
    ELSE IF chainCount >= 2 THEN 60
    ELSE IF chainCount >= 1 THEN 30
    ELSE 0

ScoreDeployments(count) ==
    IF count >= 10 THEN 100
    ELSE IF count >= 5 THEN 80
    ELSE IF count >= 2 THEN 60
    ELSE IF count >= 1 THEN 40
    ELSE 0

RECURSIVE SumField(_, _, _)
SumField(activities, field, k) ==
    IF k = 0 THEN 0 ELSE SumField(activities, field, k - 1) + activities[k][field]

RECURSIVE MaxAge(_, _)
MaxAge(activities, k) ==
    IF k = 0 THEN 0 ELSE Max(MaxAge(activities, k - 1), activities[k].age)

ActivityToFactors(activities) ==
    LET n == Len(activities)
        totalTx == SumField(activities, "transactionCount", n)
        totalInteractions == SumField(activities, "uniqueInteractions", n)
        maxAge == MaxAge(activities, n)
        totalDeployed == SumField(activities, "contractsDeployed", n)
    IN  << Factor("Account Age", ScoreAge(maxAge), 25, <<maxAge, n>>),
           Factor("Transaction Volume", ScoreTxCount(totalTx), 20, <<totalTx>>),
           Factor("Interaction Diversity", ScoreDiversity(totalInteractions), 20,
                  <<totalInteractions>>),
           Factor("Multi-Chain Presence", ScoreChainPresence(n), 15, <<n>>) >>
        \o (IF totalDeployed > 0
            THEN << Factor("Builder Activity", ScoreDeployments(totalDeployed), 20,
                           <<totalDeployed>>) >>
            ELSE <<>>)

OnChainFactors ==
    LET activities == Analyze(Len(ChainOrder))
    IN  IF Len(activities) = 0 THEN <<>> ELSE ActivityToFactors(activities)

\* detectEntityType: "unknown" when getCode throws
DetectedEntityType ==
    IF scoreWorld.entity = "throws" THEN "unknown" ELSE scoreWorld.entity

\* ---- score(): the validity check, the Promise.all, the combination ----

Branches == {"eigenTrust", "attestation", "onchain", "entityType"}

Settled(factors, entityType) ==
    [done |-> TRUE, factors |-> factors, entityType |-> entityType]

ScoreTarget == ToLowerCase(scoreQuery.target)

\* query.depth || 3
ScoreDepth == IF scoreQuery.depth = 0 THEN 3 ELSE scoreQuery.depth

ScoreRunningUnchecked == response = NoResponse

ScoreRunning == IsValidAddress(ScoreTarget) /\ response = NoResponse

\* if (!isValidAddress(target)) return buildErrorResponse(...)
ScoreInvalid ==
    /\ ~IsValidAddress(ScoreTarget)
    /\ response = NoResponse
    /\ response' = [outcome |-> "resolved", error |-> TRUE,
                    address |-> scoreQuery.target, score |-> 0, confidence |-> 0,
                    level |-> "unknown", factors |-> <<>>, entityType |-> "unknown",
                    attestationCount |-> -1, graphDepth |-> -1]
    /\ UNCHANGED <<scoreQuery, scoreWorld, scoreParts>>

\* computeEigenTrust: everything it calls is inside its try block
ComputeEigenTrust ==
    /\ ScoreRunning
    /\ ~scoreParts["eigenTrust"].done
    /\ \/ /\ scoreWorld.graph = "ok"
          /\ LET neighborhood == NeighborhoodOf(ScoreTarget, ScoreDepth)
             IN  \E es \in SeqsOf(neighborhood.edges) :
                    scoreParts' = [scoreParts EXCEPT !["eigenTrust"] =
                        Settled(EigenTrustFactors(ScoreTarget, neighborhood, es), "unknown")]
       \/ /\ scoreWorld.graph # "ok"
          /\ scoreParts' = [scoreParts EXCEPT !["eigenTrust"] = Settled(<<>>, "unknown")]
    /\ UNCHANGED <<scoreQuery, scoreWorld, response>>

ComputeAttestationFactors ==
    /\ ScoreRunning
    /\ ~scoreParts["attestation"].done
    /\ scoreParts' = [scoreParts EXCEPT !["attestation"] =
           Settled(AttestationFactors(FetchAttestationsForAddress, GetAccountStats), "unknown")]
    /\ UNCHANGED <<scoreQuery, scoreWorld, response>>

ComputeOnChainFactors ==
    /\ ScoreRunning
    /\ ~scoreParts["onchain"].done
    /\ scoreParts' = [scoreParts EXCEPT !["onchain"] = Settled(OnChainFactors, "unknown")]
    /\ UNCHANGED <<scoreQuery, scoreWorld, response>>

DetectEntityType ==
    /\ ScoreRunning
    /\ ~scoreParts["entityType"].done
    /\ scoreParts' = [scoreParts EXCEPT !["entityType"] = Settled(<<>>, DetectedEntityType)]
    /\ UNCHANGED <<scoreQuery, scoreWorld, response>>

\* the code after the await: combine, average, classify, package
ScoreCombine ==
    /\ ScoreRunning
    /\ \A b \in Branches : scoreParts[b].done
    /\ LET eigenTrustScore == scoreParts["eigenTrust"].factors
           attestationFactors == scoreParts["attestation"].factors
           onchainFactors == scoreParts["onchain"].factors
           allFactors == eigenTrustScore \o attestationFactors \o onchainFactors
           finalScore == IF Len(allFactors) > 0 THEN WeightedAverage(allFactors) ELSE 0
       IN  response' =
               [outcome |-> "resolved", error |-> FALSE,
                address |-> ScoreTarget, score |-> finalScore,
                confidence |-> CalculateConfidence(Len(eigenTrustScore) > 0,
                                                   Len(attestationFactors) > 0,
                                                   Len(onchainFactors) > 0),
                level |-> ScoreToLevel(finalScore),
                factors |-> allFactors,
                entityType |-> scoreParts["entityType"].entityType,
                \* the first number of the Attestation Volume description; -1 is undefined
                attestationCount |-> IF Len(attestationFactors) > 0
                                     THEN attestationFactors[1].description[1] ELSE -1,
                graphDepth |-> ScoreDepth]
    /\ UNCHANGED <<scoreQuery, scoreWorld, scoreParts>>

ScoreQueries == [target : {"A", "bad"}, depth : {0, 1}]

TriplesOutcomes ==
    {[ok |-> FALSE, values |-> <<>>], [ok |-> TRUE, values |-> <<>>],
     [ok |-> TRUE, values |-> <<1, -1, 1>>]}

StatsOutcomes ==
    {[ok |-> FALSE, account |-> FALSE, totalStaked |-> 0],
     [ok |-> TRUE, account |-> FALSE, totalStaked |-> 0],
     [ok |-> TRUE, account |-> TRUE, totalStaked |-> 0],
     [ok |-> TRUE, account |-> TRUE, totalStaked |-> 1000]}

ChainOutcomes ==
    {[ok |-> FALSE, txCount |-> 0, age |-> 0], [ok |-> TRUE, txCount |-> 0, age |-> 0],
     [ok |-> TRUE, txCount |-> 60, age |-> 200]}

ScoreWorlds ==
    [graph : {"ok", "neighborhoodThrows", "connectionsThrows"},
     triples : TriplesOutcomes,
     stats : StatsOutcomes,
     chains : [{"ethereum", "base"} -> ChainOutcomes],
     entity : {"throws", "wallet", "contract"}]

ScoreStores ==
    {SetToSeq({QueryEdge(k) : k \in S}) :
        S \in { {},
                {<<"a", "b", "s1">>},
                {<<"a", "b", "s1">>, <<"b", "a", "s1">>, <<"c", "a", "s1">>} }}

ScoreInit ==
    /\ SolverIdle
    /\ QueryIdle
    /\ RunsIdle
    /\ rels \in ScoreStores
    /\ upsertLog = rels
    /\ nodeScore = [n \in {rels[i].from : i \in 1..Len(rels)}
                         \cup {rels[i].to : i \in 1..Len(rels)} |-> NoScore]
    /\ scoreQuery \in ScoreQueries
    /\ scoreWorld \in ScoreWorlds
    /\ scoreParts = [b \in Branches |-> Pending]
    /\ response = NoResponse

ScoreNext ==
    \/ ScoreInvalid /\ UNCHANGED <<solverVars, storeVars, queryVars, runVars, restVars>>
    \/ ComputeEigenTrust /\ UNCHANGED <<solverVars, storeVars, queryVars, runVars, restVars>>
    \/ ComputeAttestationFactors /\ UNCHANGED <<solverVars, storeVars, queryVars, runVars, restVars>>
    \/ ComputeOnChainFactors /\ UNCHANGED <<solverVars, storeVars, queryVars, runVars, restVars>>
    \/ DetectEntityType /\ UNCHANGED <<solverVars, storeVars, queryVars, runVars, restVars>>
    \/ ScoreCombine /\ UNCHANGED <<solverVars, storeVars, queryVars, runVars, restVars>>

ScoreSpec == ScoreInit /\ [][ScoreNext]_vars

\* what the graph data gives when no graph call throws
C3_GraphExpected ==
    IF scoreWorld.graph # "ok" THEN {<<>>}
    ELSE LET neighborhood == NeighborhoodOf(ScoreTarget, ScoreDepth)
         IN  {EigenTrustFactors(ScoreTarget, neighborhood, es) :
                 es \in SeqsOf(neighborhood.edges)}

\* the attestation factors that rest on requests that did not throw: volume
\* and sentiment rest on the triples request, the stake on the account request
C3_AttestationExpected ==
    IF scoreWorld.triples.ok
    THEN AttestationFactors(scoreWorld.triples.values, GetAccountStats)
    ELSE SelectSeq(AttestationFactors(<<>>, GetAccountStats),
                   LAMBDA f : f.name = "Stake Weight")

\* C3: for a well-formed target and any combination of throwing requests,
\* score() resolves, and the response's factors are exactly the factors
\* computed from the requests that did not throw; a request that threw
\* contributes no factor.
C3_FailureIsolation ==
    (IsValidAddress(ScoreTarget) /\ response # NoResponse) =>
        /\ response.outcome = "resolved"
        /\ ~response.error
        /\ \E g \in C3_GraphExpected :
              response.factors = g \o C3_AttestationExpected \o OnChainFactors


\* C15: for a target that is not a well-formed address, score() resolves
\* with score 0, confidence 0, level unknown and no factors, and none of the
\* four gathering calls (graph and solver, attestations, on-chain, entity
\* type) is ever started.
C15_MalformedTargetRejected ==
    ~IsValidAddress(ScoreTarget) =>
        /\ \A b \in DOMAIN scoreParts : scoreParts[b] = Pending
        /\ response # NoResponse =>
              /\ response.outcome = "resolved"
              /\ response.score = 0
              /\ response.confidence = 0
              /\ response.level = "unknown"
              /\ response.factors = <<>>

C15_Witness_RejectedWithSourcesUp ==
    /\ scoreQuery.target = "bad"
    /\ response # NoResponse
    /\ response.error
    /\ Len(rels) > 0
    /\ scoreWorld.graph = "ok"
    /\ scoreWorld.triples.ok /\ scoreWorld.stats.ok
    /\ \A c \in DOMAIN scoreWorld.chains : scoreWorld.chains[c].ok

Contributed ==
    {b \in {"eigenTrust", "attestation", "onchain"} : Len(scoreParts[b].factors) > 0}

\* C18: for a well-formed target the confidence of the response is 0.95 when
\* all three sources gathered at least one factor, 0.75 when exactly two did,
\* 0.5 when exactly one did and 0.1 when none did, whatever the factors are
\* and whichever sources they come from (confidence is in hundredths).
C18_ConfidenceBySourceCount ==
    (IsValidAddress(ScoreTarget) /\ response # NoResponse) =>
        /\ Len(response.factors) = Len(scoreParts["eigenTrust"].factors)
                                    + Len(scoreParts["attestation"].factors)
                                    + Len(scoreParts["onchain"].factors)
        /\ response.confidence =
              CASE Cardinality(Contributed) = 3 -> 95
                [] Cardinality(Contributed) = 2 -> 75
                [] Cardinality(Contributed) = 1 -> 50
                [] Cardinality(Contributed) = 0 -> 10

C18_Witness_TwoSourcesWithoutAttestation ==
    /\ IsValidAddress(ScoreTarget)
    /\ response # NoResponse
    /\ Contributed = {"eigenTrust", "onchain"}
    /\ response.confidence = 75

\* the weight the factors of one source carry in the final average
SourceWeight(b) == TotalWeight(scoreParts[b].factors, Len(scoreParts[b].factors))

\* C20 (as claimed): when all three sources contribute, the graph factor
\* carries 35%, the attestation factors 30% and the on-chain factors 35% of
\* the total factor weight of the final weighted average.
C20_ReadmeShares ==
    (IsValidAddress(ScoreTarget) /\ response # NoResponse /\ Cardinality(Contributed) = 3)
    => LET total == TotalWeight(response.factors, Len(response.factors))
       IN  /\ 100 * SourceWeight("eigenTrust") = 35 * total
           /\ 100 * SourceWeight("attestation") = 30 * total
           /\ 100 * SourceWeight("onchain") = 35 * total

\* what the weights of the code give instead: the on-chain factors always
\* carry more than half of the total, the graph factor less than 27%
C20_SharesOfTheCode ==
    (IsValidAddress(ScoreTarget) /\ response # NoResponse /\ Cardinality(Contributed) = 3)
    => LET total == TotalWeight(response.factors, Len(response.factors))
       IN  /\ SourceWeight("eigenTrust") = 35
           /\ SourceWeight("attestation") \in {15, 25, 30, 40}
           /\ SourceWeight("onchain") \in {80, 100}
           /\ 2 * SourceWeight("onchain") > total
           /\ 100 * SourceWeight("eigenTrust") < 27 * total

-----------------------------------------------------------------------------
(* weightedAverage, as score() calls it and as any other caller may *)

MaxItems == 2

\* { score, weight } items a caller can pass; weights in any one unit
AverageItems == [score : {0, 75, 100}, weight : {0, 1, 2}]

WeightedAverageCall(items) ==
    /\ ScoreIdle
    /\ lastQuery = NoQuery
    /\ lastQuery' = [op |-> "weightedAverage", items |-> items,
                     returned |-> WeightedAverage(items)]

AverageInit == ScoreInit \/ (SolverIdle /\ StoreIdle)

AverageNext ==
    \/ ScoreInvalid /\ UNCHANGED <<solverVars, storeVars, queryVars, runVars, restVars>>
    \/ ComputeEigenTrust /\ UNCHANGED <<solverVars, storeVars, queryVars, runVars, restVars>>
    \/ ComputeAttestationFactors /\ UNCHANGED <<solverVars, storeVars, queryVars, runVars, restVars>>
    \/ ComputeOnChainFactors /\ UNCHANGED <<solverVars, storeVars, queryVars, runVars, restVars>>
    \/ DetectEntityType /\ UNCHANGED <<solverVars, storeVars, queryVars, runVars, restVars>>
    \/ ScoreCombine /\ UNCHANGED <<solverVars, storeVars, queryVars, runVars, restVars>>
    \/ \E items \in UNION {[1..k -> AverageItems] : k \in 0..MaxItems} :
          WeightedAverageCall(items) /\ UNCHANGED <<solverVars, storeVars, runVars, scoreVars, restVars>>
    \/ QueryReturn /\ UNCHANGED <<solverVars, storeVars, runVars, scoreVars, restVars>>

AverageSpec == AverageInit /\ [][AverageNext]_vars

\* r is the integer nearest to the weighted mean of items (halves go up),
\* or 0 when there are no items or their weights sum to 0
C19_IsAverage(r, items) ==
    LET n == Len(items)
        W == SeqSum([i \in 1..n |-> items[i].weight], n)
        S == SeqSum([i \in 1..n |-> items[i].score * items[i].weight], n)
    IN  IF n = 0 \/ W = 0 THEN r = 0
        ELSE 2 * r * W <= 2 * S + W /\ 2 * S + W < 2 * (r + 1) * W

\* C19: the score of a score response is sum(score * weight) / sum(weight)
\* over all gathered factors, rounded to the nearest integer, and 0 when no
\* factor was gathered; weightedAverage returns that value for any items
\* and 0 when the weights sum to 0.
C19_FinalScoreIsWeightedAverage ==
    /\ (IsValidAddress(ScoreTarget) /\ response # NoResponse)
          => C19_IsAverage(response.score, response.factors)
    /\ lastQuery.op = "weightedAverage"
          => C19_IsAverage(lastQuery.returned, lastQuery.items)

C19_Witness_ZeroWeights ==
    /\ lastQuery.op = "weightedAverage"
    /\ Len(lastQuery.items) = 2
    /\ \A i \in 1..2 : lastQuery.items[i].weight = 0 /\ lastQuery.items[i].score > 0
    /\ lastQuery.returned = 0

C19_Witness_RoundedUp ==
    /\ IsValidAddress(ScoreTarget)
    /\ response # NoResponse
    /\ Len(response.factors) > 1
    /\ response.score * TotalWeight(response.factors, Len(response.factors))
          > WeightedSum(response.factors, Len(response.factors))

-----------------------------------------------------------------------------
(* scoreToLevel, as score() calls it and as any other caller may *)

\* the scores a caller can pass: the 0-100 range and one value beyond each end
LevelScores == -1..101

ScoreToLevelCall(score) ==
    /\ ScoreIdle
    /\ lastQuery = NoQuery
    /\ lastQuery' = [op |-> "scoreToLevel", score |-> score,
                     returned |-> ScoreToLevel(score)]

LevelNext ==
    \/ AverageNext
    \/ \E score \in LevelScores :
          ScoreToLevelCall(score) /\ UNCHANGED <<solverVars, storeVars, runVars, scoreVars, restVars>>

LevelSpec == AverageInit /\ [][LevelNext]_vars

\* the table of trust levels
C23_LevelOf(score, level) ==
    /\ score < 10 <=> level = "unknown"
    /\ (10 <= score /\ score <= 29) <=> level = "suspicious"
    /\ (30 <= score /\ score <= 49) <=> level = "low"
    /\ (50 <= score /\ score <= 69) <=> level = "moderate"
    /\ (70 <= score /\ score <= 84) <=> level = "high"
    /\ 85 <= score <=> level = "very_high"

\* C23: scoreToLevel maps a score below 10 to unknown, 10..29 to suspicious,
\* 30..49 to low, 50..69 to moderate, 70..84 to high and 85 or more to
\* very_high, and the level of every score response is the level of the
\* response's score.
C23_LevelThresholds ==
    /\ lastQuery.op = "scoreToLevel"
          => C23_LevelOf(lastQuery.score, lastQuery.returned)
    /\ response # NoResponse => C23_LevelOf(response.score, response.level)

C23_Witness_LowerBoundInclusive ==
    /\ lastQuery.op = "scoreToLevel"
    /\ lastQuery.score = 85
    /\ lastQuery.returned = "very_high"

C23_Witness_ResponseLevel ==
    /\ response # NoResponse
    /\ ~response.error
    /\ response.score >= 50
    /\ response.level = "moderate"

-----------------------------------------------------------------------------
(* TrustPathTool.findPath *)

\* what graph.findTrustPath(from, to, maxHops) can settle with
FindTrustPathOutcomes(from, to, maxHops) ==
    LET x == ToLowerCase(from)
        y == ToLowerCase(to)
    IN  IF x = y /\ x \in DOMAIN nodeScore
        THEN {[outcome |-> "throws"]}
        ELSE IF ShortestPaths(x, y, maxHops) = {}
        THEN {[outcome |-> "null"]}
        ELSE {[outcome |-> "path", path |-> GraphPath(w)] :
                 w \in ShortestPaths(x, y, maxHops)}

NullPath == [null |-> TRUE]

SameAddressExact(from, to) == from = to

\* from.toLowerCase() === to.toLowerCase()
SameAddress(from, to) == ToLowerCase(from) = ToLowerCase(to)

\* graphCalls counts the calls of graph.findTrustPath the tool made
FindPath(from, to, maxHops) ==
    LET q == [op |-> "findPath", from |-> from, to |-> to, maxHops |-> maxHops]
    IN  /\ lastQuery = NoQuery
        /\ IF ~IsValidAddress(from) \/ ~IsValidAddress(to)
           THEN lastQuery' = q @@ [outcome |-> "resolved", path |-> NullPath,
                                   explanation |-> "One or both addresses are invalid.",
                                   graphCalls |-> 0]
           ELSE IF SameAddress(from, to)
           THEN lastQuery' = q @@ [outcome |-> "resolved", path |-> NullPath,
                                   explanation |-> "Both addresses are the same.",
                                   graphCalls |-> 0]
           ELSE \E r \in FindTrustPathOutcomes(from, to, maxHops) :
                   lastQuery' = q @@
                      (IF r.outcome = "throws"
                       THEN [outcome |-> "rejected", graphCalls |-> 1]
                       ELSE IF r.outcome = "null"
                       THEN [outcome |-> "resolved", path |-> NullPath,
                             explanation |-> "No trust path found",
                             graphCalls |-> 1]
                       ELSE [outcome |-> "resolved", path |-> r.path,
                             explanation |-> "Trust path found",
                             graphCalls |-> 1])

ToolAddresses == {"A", "a", "b", "bad"}

PathToolNext ==
    \/ \E from \in ToolAddresses, to \in ToolAddresses, maxHops \in 1..MaxHops :
          FindPath(from, to, maxHops) /\ UNCHANGED <<solverVars, storeVars, runVars, scoreVars, restVars>>
    \/ QueryReturn /\ UNCHANGED <<solverVars, storeVars, runVars, scoreVars, restVars>>

PathToolSpec == QueryInit /\ [][PathToolNext]_vars

\* C16: when either address is malformed, or the two are equal ignoring
\* letter case, findPath resolves with path = null and an explanation, and
\* has made no call of GraphService.findTrustPath.
C16_RejectedBeforeTraversal ==
    (/\ lastQuery.op = "findPath"
     /\ \/ ~IsValidAddress(lastQuery.from)
        \/ ~IsValidAddress(lastQuery.to)
        \/ ToLowerCase(lastQuery.from) = ToLowerCase(lastQuery.to))
    => /\ lastQuery.outcome = "resolved"
       /\ lastQuery.path = NullPath
       /\ lastQuery.explanation \in {"One or both addresses are invalid.",
                                     "Both addresses are the same."}
       /\ lastQuery.graphCalls = 0

C16_Witness_SameIgnoringCase ==
    /\ lastQuery.op = "findPath"
    /\ lastQuery.from = "A" /\ lastQuery.to = "a"
    /\ "a" \in DOMAIN nodeScore
    /\ lastQuery.explanation = "Both addresses are the same."
    /\ lastQuery.graphCalls = 0

-----------------------------------------------------------------------------
(* GraphService: the driver and the sessions of its operations.  Every     *)
(* read or write method has one shape: const session = this.getSession();  *)
(* try { await session.run(...) ... } finally { await session.close() }.   *)
(* What the queries return is modelled above; here only how they end.      *)

\* the methods the tools call, and the largest number of session.run calls
\* each makes (getNeighborhood runs the fallback query only when the first
\* query returns no node)
GraphOperations == {"upsertEdgesBatch", "findTrustPath", "getNeighborhood"}

QueriesOf(o) == IF o = "getNeighborhood" THEN {2, 3} ELSE {1}

\* an operation that has passed getSession()
Running(o, left, inEffect) ==
    [op |-> o, pc |-> "run", left |-> left, threw |-> FALSE, opened |-> TRUE,
     queries |-> 0, outcome |-> "pending", inEffect |-> inEffect]

\* lines 356-361: throws "Not connected" iff this.driver is null
GetSession(c, o, left) ==
    IF driver = "null"
    THEN /\ graphOps' = [graphOps EXCEPT ![c] =
                [op |-> o, pc |-> "settled", left |-> 0, threw |-> TRUE,
                 opened |-> FALSE, queries |-> 0, outcome |-> "notConnected",
                 inEffect |-> connected]]
         /\ sessions' = sessions
    ELSE /\ graphOps' = [graphOps EXCEPT ![c] = Running(o, left, connected)]
         /\ sessions' = sessions + 1

\* no operation is between its call and its settling
Quiet == \A d \in Callers : graphOps[d].pc \in {"idle", "settled"}

\* a caller invokes a read or write method; the tools do so only after
\* their initialize() has awaited connect() (agent.ts lines 33-34)
OpBegin(c, o) ==
    /\ graphOps[c] = NoOp
    /\ \A d \in Callers : graphOps[d].op = "connect" => graphOps[d].pc = "settled"
    /\ \E left \in QueriesOf(o) : GetSession(c, o, left)
    /\ UNCHANGED <<driver, connected>>

\* a session.run that throws and skips the finally block
OpQueryLeaksOnThrow(c) ==
    /\ graphOps[c].pc = "run"
    /\ \E ok \in BOOLEAN :
          graphOps' = [graphOps EXCEPT ![c] =
              IF ok /\ graphOps[c].left > 1
              THEN [@ EXCEPT !.left = @ - 1, !.queries = @ + 1]
              ELSE IF ok
              THEN [@ EXCEPT !.left = 0, !.queries = @ + 1, !.pc = "finally"]
              ELSE [@ EXCEPT !.queries = @ + 1, !.threw = TRUE,
                             !.pc = "settled", !.outcome = "rejected"]]
    /\ UNCHANGED <<driver, connected, sessions>>

\* one await session.run(...): it resolves and the body goes on, or it is the
\* last one, or it throws; the last two enter the finally block
OpQuery(c) ==
    /\ graphOps[c].pc = "run"
    /\ \E ok \in BOOLEAN :
          graphOps' = [graphOps EXCEPT ![c] =
              IF ok /\ graphOps[c].left > 1
              THEN [@ EXCEPT !.left = @ - 1, !.queries = @ + 1]
              ELSE [@ EXCEPT !.left = 0, !.queries = @ + 1, !.threw = ~ok,
                             !.pc = "finally"]]
    /\ UNCHANGED <<driver, connected, sessions>>

\* finally { await session.close() }, then the promise settles; when the
\* method is the ensureIndexes of connect(), connect() settles the same way
OpClose(c) ==
    /\ graphOps[c].pc = "finally"
    /\ sessions' = sessions - 1
    /\ graphOps' = [graphOps EXCEPT ![c] =
           [@ EXCEPT !.pc = "settled",
                     !.outcome = IF graphOps[c].threw THEN "rejected"
                                 ELSE "resolved"]]
    /\ connected' = IF graphOps[c].op = "connect" THEN ~graphOps[c].threw
                    ELSE connected
    /\ UNCHANGED driver

\* the caller takes the outcome
OpReturn(c) ==
    /\ graphOps[c].pc = "settled"
    /\ graphOps' = [graphOps EXCEPT ![c] = NoOp]
    /\ UNCHANGED <<driver, connected, sessions>>

\* connect(), lines 32-40, up to the first await: the driver is assigned
\* before its connectivity is verified.  connect() and disconnect() are
\* awaited by start-up and shutdown, with no operation in flight.
ConnectBegin(c) ==
    /\ graphOps[c] = NoOp
    /\ Quiet
    /\ driver' = "set"
    /\ graphOps' = [graphOps EXCEPT ![c] =
           [op |-> "connect", pc |-> "verify", left |-> 2, threw |-> FALSE,
            opened |-> FALSE, queries |-> 0, outcome |-> "pending",
            inEffect |-> connected]]
    /\ UNCHANGED <<connected, sessions>>

\* await this.driver.verifyConnectivity(): resolves, and ensureIndexes opens
\* its session for its two queries, or throws, and connect() rejects
ConnectVerify(c) ==
    /\ graphOps[c].pc = "verify"
    /\ \E ok \in BOOLEAN :
          IF ok
          THEN /\ graphOps' = [graphOps EXCEPT ![c] =
                      [@ EXCEPT !.pc = "run", !.opened = TRUE]]
               /\ sessions' = sessions + 1
               /\ connected' = connected
          ELSE /\ graphOps' = [graphOps EXCEPT ![c] =
                      [@ EXCEPT !.pc = "settled", !.threw = TRUE,
                                !.outcome = "rejected"]]
               /\ sessions' = sessions
               /\ connected' = FALSE
    /\ UNCHANGED driver

\* disconnect(), lines 45-51: nothing without a driver; otherwise
\* driver.close() resolves and the field is cleared, or it throws first
Disconnect(c) ==
    /\ graphOps[c] = NoOp
    /\ Quiet
    /\ \E ok \in BOOLEAN :
          LET settled(threw) ==
                  [op |-> "disconnect", pc |-> "settled", left |-> 0,
                   threw |-> threw, opened |-> FALSE, queries |-> 0,
                   outcome |-> IF threw THEN "rejected" ELSE "resolved",
                   inEffect |-> connected]
          IN  IF driver = "null"
              THEN /\ graphOps' = [graphOps EXCEPT ![c] = settled(FALSE)]
                   /\ UNCHANGED <<driver, connected>>
              ELSE IF ok
              THEN /\ graphOps' = [graphOps EXCEPT ![c] = settled(FALSE)]
                   /\ driver' = "null"
                   /\ connected' = FALSE
              ELSE /\ graphOps' = [graphOps EXCEPT ![c] = settled(TRUE)]
                   /\ UNCHANGED <<driver, connected>>
    /\ UNCHANGED sessions

ConnInit == SolverIdle /\ StoreIdle

ConnOthers == <<solverVars, storeVars, queryVars, runVars, scoreVars, agentVars, syncVars>>

ConnNext ==
    \E c \in Callers :
        \/ \E o \in GraphOperations : OpBegin(c, o) /\ UNCHANGED ConnOthers
        \/ OpQuery(c) /\ UNCHANGED ConnOthers
        \/ OpClose(c) /\ UNCHANGED ConnOthers
        \/ OpReturn(c) /\ UNCHANGED ConnOthers
        \/ ConnectBegin(c) /\ UNCHANGED ConnOthers
        \/ ConnectVerify(c) /\ UNCHANGED ConnOthers
        \/ Disconnect(c) /\ UNCHANGED ConnOthers

ConnSpec == ConnInit /\ [][ConnNext]_vars

\* the callers whose operation holds a session
Holding == {c \in Callers : graphOps[c].pc \in {"run", "finally"}}

\* C27: the session an operation opens is closed before the operation's
\* promise settles, whether its queries succeed or one of them throws: the
\* open sessions are exactly those of the operations between getSession and
\* the end of their finally block, so with every operation completed there
\* is none.
C27_NoSessionLeak ==
    /\ sessions = Cardinality(Holding)
    /\ (\A c \in Callers : graphOps[c].pc \in {"idle", "settled"}) => sessions = 0

C27_Witness_ThrownAndClosed ==
    /\ sessions = 0
    /\ graphOps["c1"].op = "getNeighborhood"
    /\ graphOps["c1"].pc = "settled"
    /\ graphOps["c1"].outcome = "rejected"
    /\ graphOps["c1"].opened
    /\ graphOps["c1"].queries = 2
    /\ graphOps["c2"].op = "upsertEdgesBatch"
    /\ graphOps["c2"].pc = "settled"
    /\ graphOps["c2"].outcome = "resolved"

\* the read and write operations that have passed getSession
Called == {c \in Callers : graphOps[c].op \in GraphOperations}

\* C26 (as claimed): a read or write operation fails with "Not connected",
\* opening no session and issuing no query, exactly when no successful
\* connect() was in effect when it was called.
C26_NotConnectedIffNoConnect ==
    \A c \in Called :
        /\ graphOps[c].outcome = "notConnected" <=> ~graphOps[c].inEffect
        /\ graphOps[c].outcome = "notConnected"
              => (~graphOps[c].opened /\ graphOps[c].queries = 0)

\* what the code guarantees instead: "Not connected" exactly when the driver
\* field is null, which a failed connect() does not make it
C26_NotConnectedIffNoDriver ==
    /\ \A c \in Called :
          /\ graphOps[c].outcome = "notConnected" => ~graphOps[c].inEffect
          /\ graphOps[c].outcome = "notConnected"
                => (~graphOps[c].opened /\ graphOps[c].queries = 0)
          /\ graphOps[c].outcome # "notConnected" => graphOps[c].opened
    /\ connected => driver = "set"

-----------------------------------------------------------------------------
(* The agent's message handler (agent.ts): an async generator that yields  *)
(* events.  A step runs from one await to the next; every awaited call of  *)
(* a tool or of the LLM client either resolves or throws.                  *)

\* incoming messages: the joined text is absent, blank or not, and holds
\* zero, one or two 0x addresses
Messages ==
    {[text |-> "none", addresses |-> 0], [text |-> "blank", addresses |-> 0]}
    \cup [text : {"words"}, addresses : 0..2]

Intents == {"score", "path", "connections", "sync", "stats", "explain", "general"}

\* what parseQuery resolves with: the object the LLM's JSON parses to (an
\* intent and up to two targets, or null), or { intent: "general" } when the
\* request or JSON.parse threw; it never rejects
ParseOutcomes ==
    [intent : Intents \cup {"other"}, targets : 0..2] \cup {[intent |-> "null", targets |-> 0]}

\* userMessage.trim() is non-empty
HasText(m) == m.text = "words"

\* the number of addresses the switch finds: parsed.target || extractAddress,
\* parsed.target2 || addresses[1]
Found(m, q) == IF q.targets > m.addresses THEN q.targets ELSE m.addresses

\* where the switch goes after parseQuery resolved with q
AfterParse(m, q) ==
    IF q.intent = "null" THEN "catch"
    ELSE IF q.intent \in {"score", "connections"}
    THEN (IF Found(m, q) >= 1 THEN "tool" ELSE "completed")
    ELSE IF q.intent = "path"
    THEN (IF Found(m, q) >= 2 THEN "tool" ELSE "completed")
    ELSE IF q.intent \in {"sync", "stats"} THEN "tool"
    ELSE "respond"

\* yield { state: "completed", ... } and the generator returns
Complete ==
    /\ events' = Append(events, "completed")
    /\ handlerPc' = "done"

\* lines 55-82: the handler is called; a blank message is answered at once
Receive(m) ==
    /\ handlerPc = "idle"
    /\ message' = m
    /\ IF HasText(m)
       THEN events' = Append(events, "working") /\ handlerPc' = "parse"
       ELSE Complete
    /\ UNCHANGED <<parsed, llmCalls, toolCalls>>

\* line 86: await llm.parseQuery(userMessage), then the switch up to its
\* first await
ParseQuery ==
    /\ handlerPc = "parse"
    /\ llmCalls' = llmCalls + 1
    /\ \E q \in ParseOutcomes :
          /\ parsed' = q
          /\ IF AfterParse(message, q) = "completed"
             THEN Complete
             ELSE handlerPc' = AfterParse(message, q) /\ events' = events
    /\ UNCHANGED <<message, toolCalls>>

\* the tool call of the case: score, findPath, getConnections,
\* syncTrustGraph or getGraphStats
ToolCall ==
    /\ handlerPc = "tool"
    /\ toolCalls' = toolCalls + 1
    /\ \E ok \in BOOLEAN : handlerPc' = IF ok THEN "respond" ELSE "catch"
    /\ UNCHANGED <<message, parsed, events, llmCalls>>

\* the case's await llm.generateResponse(userMessage, {...}): it has no
\* catch of its own and rejects when the request does
GenerateResponse ==
    /\ handlerPc = "respond"
    /\ llmCalls' = llmCalls + 1
    /\ \E ok \in BOOLEAN :
          IF ok THEN Complete ELSE handlerPc' = "catch" /\ events' = events
    /\ UNCHANGED <<message, parsed, toolCalls>>

\* lines 163-178, the catch block: await llm.generateResponse(userMessage,
\* { error }) outside any try; if it rejects, so does the generator
GenerateErrorResponse ==
    /\ handlerPc = "catch"
    /\ llmCalls' = llmCalls + 1
    /\ \E ok \in BOOLEAN :
          IF ok THEN Complete ELSE handlerPc' = "thrown" /\ events' = events
    /\ UNCHANGED <<message, parsed, toolCalls>>

AgentInit == SolverIdle /\ StoreIdle

AgentOthers == <<solverVars, storeVars, queryVars, runVars, scoreVars, connVars, syncVars>>

AgentNext ==
    \/ \E m \in Messages : Receive(m) /\ UNCHANGED AgentOthers
    \/ ParseQuery /\ UNCHANGED AgentOthers
    \/ ToolCall /\ UNCHANGED AgentOthers
    \/ GenerateResponse /\ UNCHANGED AgentOthers
    \/ GenerateErrorResponse /\ UNCHANGED AgentOthers

AgentSpec == AgentInit /\ [][AgentNext]_vars

\* the event stream has ended: the generator returned or threw
StreamEnded == handlerPc \in {"done", "thrown"}

\* C25 (as claimed): whatever the LLM and the tools do, the event stream of
\* a message ends with exactly one completed event; after non-blank text it
\* is preceded by exactly one working event; after no or blank text it is
\* the only event and neither the LLM nor a tool was called.
C25_EventProtocol ==
    StreamEnded =>
        IF HasText(message)
        THEN events = <<"working", "completed">>
        ELSE events = <<"completed">> /\ llmCalls = 0 /\ toolCalls = 0

\* what the handler guarantees instead: the protocol whenever the generator
\* returns; when it throws, the stream is the working event alone, after a
\* rejected generateResponse in the catch block
C25_ProtocolUnlessErrorReplyFails ==
    /\ handlerPc = "done" =>
          IF HasText(message)
          THEN events = <<"working", "completed">>
          ELSE events = <<"completed">> /\ llmCalls = 0 /\ toolCalls = 0
    /\ handlerPc = "thrown" =>
          /\ HasText(message)
          /\ events = <<"working">>
          /\ llmCalls >= 2
    /\ toolCalls <= 1

-----------------------------------------------------------------------------
(* IntuitionService.fetchAllEdges: the batch loop of the full graph sync *)

MaxTriples == 3

MaxBatches == 2

\* a triple as triplesToEdges sees it: whether subject and object resolve
\* to an address, and whether the creator is the subject's address
TripleKinds == [subject : BOOLEAN, object : BOOLEAN, creatorIsSubject : BOOLEAN]

\* triplesToEdges, lines 505-561, for one triple: the edges it pushes
\* (subject and object, when both resolve, are different addresses here)
EdgesOfTriple(tr) ==
    IF ~tr.subject /\ ~tr.object THEN <<>>
    ELSE (IF tr.subject /\ ~tr.creatorIsSubject THEN <<"creator-subject">> ELSE <<>>)
         \o (IF tr.object THEN <<"creator-object">> ELSE <<>>)
         \o (IF tr.subject /\ tr.object THEN <<"subject-object">> ELSE <<>>)

\* triplesToEdges over the triples ts[a..b], each edge tagged with the
\* position of its triple in the source
RECURSIVE TriplesToEdges(_, _, _)
TriplesToEdges(ts, a, b) ==
    IF a > b THEN <<>>
    ELSE TriplesToEdges(ts, a, b - 1)
         \o [k \in 1..Len(EdgesOfTriple(ts[b])) |->
                [triple |-> b, edge |-> EdgesOfTriple(ts[b])[k]]]

\* the triples query with { limit, offset }: positions offset+1..offset+limit
\* of the source, as far as it goes
FetchTrustEdgesOk(limit, offset) ==
    TriplesToEdges(triples, offset + 1, Min(offset + limit, Len(triples)))

\* fetchAllEdges(batchSize, maxBatches) is called on a source holding ts
FetchAllEdgesCall(ts, batchSize, maxBatches) ==
    /\ syncPc = "idle"
    /\ triples' = ts
    /\ syncArgs' = [batchSize |-> batchSize, maxBatches |-> maxBatches]
    /\ batch' = 0
    /\ syncPc' = "loop"
    /\ UNCHANGED <<requests, collected>>

\* one pass of the for body, lines 474-485: the request resolves, or it
\* throws and fetchTrustEdges returns []
FetchBatch ==
    /\ syncPc = "loop"
    /\ batch < syncArgs.maxBatches
    /\ \E ok \in BOOLEAN :
          LET limit == syncArgs.batchSize
              offset == batch * syncArgs.batchSize
              fetched == IF ok THEN FetchTrustEdgesOk(limit, offset) ELSE <<>>
          IN  /\ requests' = Append(requests,
                                [limit |-> limit, offset |-> offset, ok |-> ok])
              /\ collected' = collected \o fetched
              /\ IF Len(fetched) < syncArgs.batchSize
                 THEN syncPc' = "done" /\ batch' = batch
                 ELSE syncPc' = "loop" /\ batch' = batch + 1
    /\ UNCHANGED <<triples, syncArgs>>

\* i < maxBatches fails: return allEdges
FetchLoopExit ==
    /\ syncPc = "loop"
    /\ batch >= syncArgs.maxBatches
    /\ syncPc' = "done"
    /\ UNCHANGED <<triples, syncArgs, batch, requests, collected>>

SyncInit == SolverIdle /\ StoreIdle

SyncOthers == <<solverVars, storeVars, queryVars, runVars, scoreVars, connVars, agentVars>>

SyncNext ==
    \/ \E ts \in UNION {[1..k -> TripleKinds] : k \in 0..MaxTriples},
          batchSize \in 1..2, maxBatches \in 1..MaxBatches :
          FetchAllEdgesCall(ts, batchSize, maxBatches) /\ UNCHANGED SyncOthers
    \/ FetchBatch /\ UNCHANGED SyncOthers
    \/ FetchLoopExit /\ UNCHANGED SyncOthers

SyncSpec == SyncInit /\ [][SyncNext]_vars

\* every request of the call resolved
AllRequestsOk == \A k \in 1..Len(requests) : requests[k].ok

\* allEdges holds the edges of triple i
HasEdgesOf(i) ==
    \A k \in 1..Len(EdgesOfTriple(triples[i])) :
        \E j \in 1..Len(collected) :
            collected[j] = [triple |-> i, edge |-> EdgesOfTriple(triples[i])[k]]

\* request k asks for batchSize triples at offset (k - 1) * batchSize, and
\* there are never more than maxBatches requests
C30_OffsetsAndBound ==
    /\ \A k \in 1..Len(requests) :
          /\ requests[k].limit = syncArgs.batchSize
          /\ requests[k].offset = (k - 1) * syncArgs.batchSize
    /\ Len(requests) <= syncArgs.maxBatches

\* C30 (as claimed): fetchAllEdges requests batches at offsets 0, batchSize,
\* 2*batchSize, ..., makes at most maxBatches requests, and, when every
\* request is answered, stops before maxBatches only when the source has no
\* triple beyond those requested, so that for a source of at most
\* batchSize * maxBatches triples the result holds the edges of every triple.
C30_FetchesEveryTriple ==
    /\ C30_OffsetsAndBound
    /\ (syncPc = "done" /\ AllRequestsOk) =>
          /\ Len(requests) < syncArgs.maxBatches
                => Len(triples) <= Len(requests) * syncArgs.batchSize
          /\ Len(triples) <= syncArgs.batchSize * syncArgs.maxBatches
                => \A i \in 1..Len(triples) : HasEdgesOf(i)

\* what the loop guarantees instead: it stops early exactly when a batch
\* brought fewer edges than batchSize, whatever the number of triples behind
\* them, and the result holds the edges of the triples requested
C30_StopsOnFewEdges ==
    /\ C30_OffsetsAndBound
    /\ (syncPc = "done" /\ AllRequestsOk) =>
          /\ \A i \in 1..Min(Len(triples), Len(requests) * syncArgs.batchSize) :
                HasEdgesOf(i)
          /\ Len(requests) < syncArgs.maxBatches =>
                Len(FetchTrustEdgesOk(syncArgs.batchSize,
                                      (Len(requests) - 1) * syncArgs.batchSize))
                   < syncArgs.batchSize

-----------------------------------------------------------------------------
(* The Graph Trust factor of score() against changes of the edge store *)

MaxScopeUpserts == 1

\* stores the factor is computed on: empty, a chain, parallel edges, and the
\* target a with two trustors
ScopeStores ==
    {SetToSeq({QueryEdge(k) : k \in S}) :
        S \in { {},
                {<<"a", "b", "s1">>},
                {<<"a", "b", "s1">>, <<"b", "c", "s1">>},
                {<<"a", "b", "s1">>, <<"a", "b", "s2">>, <<"b", "a", "s1">>},
                {<<"a", "b", "s1">>, <<"b", "a", "s1">>, <<"c", "a", "s1">>} }}

\* the edges an upsert brings: a new edge between any two nodes, beside the
\* s1 edge if there is one, or a new weight for an s2 edge of the store
ScopeEdges ==
    [from : QueryNodes, to : QueryNodes, source : {"s2"}, weight : {2}, timestamp : {20}]

ScopeInit ==
    /\ SolverIdle
    /\ QueryIdle
    /\ RunsIdle
    /\ ScoreIdle
    /\ rels \in ScopeStores
    /\ upsertLog = <<>>
    /\ nodeScore = [n \in {rels[i].from : i \in 1..Len(rels)}
                         \cup {rels[i].to : i \in 1..Len(rels)} |-> NoScore]

\* the nodes reached from x by following 1..depth forward edges
RECURSIVE ReachedFrom(_, _)
ReachedFrom(x, depth) ==
    IF depth = 0 THEN {}
    ELSE Successors({x}) \cup UNION {ReachedFrom(y, depth - 1) : y \in Successors({x})}

\* the score of the factors computeEigenTrust returned; -1 stands for none
FactorScore(factors) == IF Len(factors) = 0 THEN -1 ELSE factors[1].score

\* the Graph Trust scores computeEigenTrust(target, depth) can return on the
\* current store, one for each order the edge rows can come in
GraphScores(target, depth) ==
    LET neighborhood == NeighborhoodOf(target, depth)
    IN  {FactorScore(EigenTrustFactors(target, neighborhood, es)) :
            es \in SeqsOf(neighborhood.edges)}

\* computeEigenTrust(target, depth) as score() calls it; the record keeps
\* what the target reached and how many upserts the store had seen
GraphFactorCall(target, depth) ==
    /\ lastQuery = NoQuery
    /\ lastQuery' = [op |-> "computeEigenTrust", target |-> target, depth |-> depth,
                     calls |-> 1, scores |-> GraphScores(target, depth),
                     again |-> {}, reached |-> ReachedFrom(target, depth),
                     logged |-> Len(upsertLog)]

\* upsertEdge(e), before a score() call or between two of them
ScopeUpsert(e) ==
    /\ lastQuery = NoQuery \/ (lastQuery.op = "computeEigenTrust" /\ lastQuery.calls = 1)
    /\ Len(upsertLog) < MaxScopeUpserts
    /\ rels' = MergeRel(rels, EdgeParams(e))
    /\ nodeScore' = MergeNode(MergeNode(nodeScore, EdgeParams(e).from), EdgeParams(e).to)
    /\ upsertLog' = Append(upsertLog, e)

\* the same score() query once more
GraphFactorAgain ==
    /\ lastQuery.op = "computeEigenTrust"
    /\ lastQuery.calls = 1
    /\ lastQuery' = [lastQuery EXCEPT !.calls = 2,
                         !.again = GraphScores(lastQuery.target, lastQuery.depth)]

ScopeNext ==
    \/ \E e \in ScopeEdges :
          ScopeUpsert(e) /\ UNCHANGED <<solverVars, queryVars, runVars, scoreVars, restVars>>
    \/ \E target \in QueryNodes, depth \in 1..MaxDepth :
          GraphFactorCall(target, depth)
             /\ UNCHANGED <<solverVars, storeVars, runVars, scoreVars, restVars>>
    \/ GraphFactorAgain /\ UNCHANGED <<solverVars, storeVars, runVars, scoreVars, restVars>>
    \/ QueryReturn /\ UNCHANGED <<solverVars, storeVars, runVars, scoreVars, restVars>>

ScopeSpec == ScopeInit /\ [][ScopeNext]_vars

\* the sources of the edges upserted between the two calls
SourcesBetween ==
    {EdgeParams(upsertLog[k]).from : k \in (lastQuery.logged + 1)..Len(upsertLog)}

Repeated == lastQuery.op = "computeEigenTrust" /\ lastQuery.calls = 2

\* C29 (as claimed): adding edges, or changing them, whose source is not
\* reached from the target by 1..depth forward edges leaves the Graph Trust
\* scores the target can get unchanged.
C29_SourceNotReached ==
    (Repeated /\ SourcesBetween \cap lastQuery.reached = {})
        => lastQuery.again = lastQuery.scores

\* C29 (amended): adding edges, or changing them, whose source is neither
\* the target nor reached from the target by 1..depth forward edges leaves
\* the Graph Trust scores the target can get unchanged.
C29_SourceOutsideNeighborhood ==
    (Repeated /\ SourcesBetween \cap (lastQuery.reached \cup {lastQuery.target}) = {})
        => lastQuery.again = lastQuery.scores

\* the factor of a was computed before and after c, which a does not reach,
\* became a trustor of a
C29_Witness_NewTrustorOutOfReach ==
    /\ Repeated
    /\ lastQuery.target = "a"
    /\ lastQuery.scores # {-1}
    /\ lastQuery.logged = 0
    /\ Len(upsertLog) = 1
    /\ upsertLog[1].from = "c"
    /\ upsertLog[1].to = "a"
    /\ "c" \notin lastQuery.reached
    /\ "b" \in lastQuery.reached

\* an edge inside the neighbourhood was changed and the scores moved
C29_Witness_InScopeChange ==
    /\ Repeated
    /\ SourcesBetween \cap lastQuery.reached # {}
    /\ lastQuery.again # lastQuery.scores

=============================================================================
